---- MODULE Spec2Model ----
(***************************************************************************)
(* Match coordinator of the chess server: the REST handlers of             *)
(* server/controllers/gameController.js, the Game model, the ELO helper    *)
(* and the TimeoutService sweep, as one state machine.                     *)
(*                                                                         *)
(* Every handler is an async function.  Node runs the code between two     *)
(* awaits without interruption, and every awaited store operation is one   *)
(* atomic operation of the document store.  Each action below is therefore *)
(* one awaited store operation together with the synchronous code that     *)
(* follows it up to the next await; the handlers of different requests     *)
(* interleave at these points.                                             *)
(*                                                                         *)
(* A mongoose document is a private copy of the stored record.  save()     *)
(* writes only the paths that were modified on the copy ($set) and the     *)
(* elements pushed onto an array ($push); it does not compare the stored   *)
(* record with what was read.                                              *)
(*                                                                         *)
(* The push channel (server/socket/socketHandler.js) keeps its own state,  *)
(* io: the connected sockets with their rooms, and the activeUsers map.    *)
(*                                                                         *)
(* The rules engine (chess.js) is opaque: a position is the sequence of    *)
(* plies applied to the starting position, and a candidate move is named   *)
(* by its outcome: "n" (no terminal flag), "m" (delivers checkmate),       *)
(* "d" (draws the game), "x" (rejected by the engine).                     *)
(***************************************************************************)
EXTENDS Integers, Sequences, FiniteSets, TLC

VARIABLES games, users, reqs, now, budget, last, io

vars == <<games, users, reqs, now, budget, last, io>>

(***************************************************************************)
(* Bounds of the model                                                     *)
(***************************************************************************)
MaxRequests == 3
MaxBotRequests == 2
MaxTick == 3
MaxGames == 2
MaxMoves == 3

(***************************************************************************)
(* Program constants                                                       *)
(***************************************************************************)
K_FACTOR == 32
WARNING_TIME == 60000
TIMEOUT_DURATION == 90000
CheckPeriod == 10000
DefaultRating == 1200
MinRating == 100
NoDate == -1

\* One tick of the model clock is three sweep periods (30 s).
TickMs == 3 * CheckPeriod

Users == {"u1", "u2", "u3"}
NoUser == "null"
Reqs == {"r1", "r2"}
Colors == {"white", "black"}
MoveInputs == {"n", "m", "d", "x"}
GameIds == 1..MaxGames

Other(c) == IF c = "white" THEN "black" ELSE "white"

(***************************************************************************)
(* Rules engine (chess.js), by what the handlers use of it                 *)
(***************************************************************************)
StartFen == << >>

IsCheckmate(fen) == Len(fen) > 0 /\ fen[Len(fen)] = "m"

IsDraw(fen) == Len(fen) > 0 /\ fen[Len(fen)] = "d"

IsGameOver(fen) == IsCheckmate(fen) \/ IsDraw(fen)

LegalMoves(fen) == IF IsGameOver(fen) THEN {} ELSE {"n", "m", "d"}

\* chess.move(move): a move object, or null / an exception
MoveAccepted(fen, mv) == mv \in LegalMoves(fen)

ChessFen(fen, mv) == Append(fen, mv)

(***************************************************************************)
(* ELO helper (server/utils/elo.js)                                        *)
(***************************************************************************)
\* EloSteps[j+1] = floor(400 * log10((63 - 2j) / (2j + 1))): for an integer
\* d, K_FACTOR * getExpectedScore(a, a + d) > j + 1/2 exactly when
\* d <= EloSteps[j+1].
EloSteps ==
  << 719, 523, 428, 364, 314, 273, 237, 205, 176, 149, 124, 100, 77, 54, 32,
     10, -11, -33, -55, -78, -101, -125, -150, -177, -206, -238, -274, -315,
     -365, -429, -524, -720 >>

\* round-half-up of K_FACTOR * getExpectedScore(ratingA, ratingB)
getExpectedScore(ratingA, ratingB) ==
  Cardinality({j \in 1..K_FACTOR : ratingB - ratingA <= EloSteps[j]})

\* actualScore2 is twice the actual score (2, 1 or 0)
calculateNewRating(currentRating, expectedScore, actualScore2) ==
  currentRating + (K_FACTOR * actualScore2) \div 2 - expectedScore

\* a slip of the comparison: a black win falls through to the draw branch
updateRatingsBlackWinAsDraw(whiteRating, blackRating, result) ==
  LET whiteExpected == getExpectedScore(whiteRating, blackRating)
      blackExpected == getExpectedScore(blackRating, whiteRating)
      whiteActual == IF result = "1-0" THEN 2 ELSE 1
      blackActual == IF result = "1-0" THEN 0 ELSE 1
  IN [whiteRating |-> calculateNewRating(whiteRating, whiteExpected, whiteActual),
      blackRating |-> calculateNewRating(blackRating, blackExpected, blackActual)]

updateRatings(whiteRating, blackRating, result) ==
  LET whiteExpected == getExpectedScore(whiteRating, blackRating)
      blackExpected == getExpectedScore(blackRating, whiteRating)
      whiteActual == IF result = "1-0" THEN 2 ELSE IF result = "0-1" THEN 0 ELSE 1
      blackActual == IF result = "1-0" THEN 0 ELSE IF result = "0-1" THEN 2 ELSE 1
  IN [whiteRating |-> calculateNewRating(whiteRating, whiteExpected, whiteActual),
      blackRating |-> calculateNewRating(blackRating, blackExpected, blackActual)]

NoRatings == [whiteRating |-> 0, blackRating |-> 0]

(***************************************************************************)
(* Stored records                                                          *)
(***************************************************************************)
\* Game.create({players, isBot, status: 'active'}) with the schema defaults
NewGame(white, black, isBot, t) ==
  [white |-> white, black |-> black, isBot |-> isBot,
   moves |-> << >>, fen |-> StartFen,
   status |-> "active", result |-> "ongoing", winner |-> NoUser,
   currentTurn |-> "white", endedAt |-> NoDate, lastMoveTime |-> t,
   timeoutWarnings |-> [white |-> FALSE, black |-> FALSE],
   abandonedBy |-> "null"]

NewUser ==
  [rating |-> DefaultRating, wins |-> 0, losses |-> 0, draws |-> 0, gamesPlayed |-> 0]

Player(g, c) == IF c = "white" THEN g.white ELSE g.black

\* a slip of the $inc: a draw is not counted as a game played
IncSetDrawNotPlayed(us, id, w, l, d, rating) ==
  IF id \notin DOMAIN us THEN us
  ELSE [us EXCEPT ![id] = [rating |-> rating, wins |-> @.wins + w,
                           losses |-> @.losses + l, draws |-> @.draws + d,
                           gamesPlayed |-> @.gamesPlayed + w + l]]

\* User.findByIdAndUpdate(id, {$inc: {...}, $set: {rating}})
IncSet(us, id, w, l, d, rating) ==
  IF id \notin DOMAIN us THEN us
  ELSE [us EXCEPT ![id] = [rating |-> rating, wins |-> @.wins + w,
                           losses |-> @.losses + l, draws |-> @.draws + d,
                           gamesPlayed |-> @.gamesPlayed + 1]]

\* User.findByIdAndUpdate(id, {$inc: {..., rating: delta}})
IncRating(us, id, w, l, d, delta) ==
  IF id \notin DOMAIN us THEN us
  ELSE IncSet(us, id, w, l, d, us[id].rating + delta)

(***************************************************************************)
(* Mongoose documents                                                      *)
(***************************************************************************)
RatingOf(us, id) == IF id \in DOMAIN us THEN us[id].rating ELSE 0

\* Game.findById(id).populate('players.white players.black', 'username rating')
Load(gs, us, gid) ==
  [id |-> gid, g |-> gs[gid], mod |-> {}, pushed |-> << >>,
   wr |-> RatingOf(us, gs[gid].white), br |-> RatingOf(us, gs[gid].black)]

NoDoc == [id |-> 0]

\* doc.path = v: the path is marked modified when the value differs
SetPath(doc, path, v) ==
  IF doc.g[path] = v THEN doc
  ELSE [doc EXCEPT !.g[path] = v, !.mod = @ \cup {path}]

\* doc.path = new Date()
SetDate(doc, path, t) ==
  [doc EXCEPT !.g[path] = t, !.mod = @ \cup {path}]

\* doc.timeoutWarnings[c] = v
SetWarning(doc, c, v) ==
  IF doc.g.timeoutWarnings[c] = v THEN doc
  ELSE [doc EXCEPT !.g.timeoutWarnings[c] = v,
                   !.mod = @ \cup {IF c = "white" THEN "timeoutWarnings.white"
                                   ELSE "timeoutWarnings.black"}]

\* doc.moves.push(san)
PushMove(doc, san) ==
  [doc EXCEPT !.g.moves = Append(@, san), !.pushed = Append(@, san)]

\* a slip of the store: save() writes the whole moves array of the document
SavedWholeArray(stored, doc) ==
  [f \in DOMAIN stored |->
     IF f = "moves" THEN IF doc.pushed # << >> THEN doc.g.moves ELSE stored.moves
     ELSE IF f = "timeoutWarnings"
       THEN [white |-> IF "timeoutWarnings.white" \in doc.mod
                         THEN doc.g.timeoutWarnings.white
                         ELSE stored.timeoutWarnings.white,
             black |-> IF "timeoutWarnings.black" \in doc.mod
                         THEN doc.g.timeoutWarnings.black
                         ELSE stored.timeoutWarnings.black]
     ELSE IF f \in doc.mod THEN doc.g[f]
     ELSE stored[f]]

\* the stored record after doc.save()
Saved(stored, doc) ==
  [f \in DOMAIN stored |->
     IF f = "moves" THEN stored.moves \o doc.pushed
     ELSE IF f = "timeoutWarnings"
       THEN [white |-> IF "timeoutWarnings.white" \in doc.mod
                         THEN doc.g.timeoutWarnings.white
                         ELSE stored.timeoutWarnings.white,
             black |-> IF "timeoutWarnings.black" \in doc.mod
                         THEN doc.g.timeoutWarnings.black
                         ELSE stored.timeoutWarnings.black]
     ELSE IF f \in doc.mod THEN doc.g[f]
     ELSE stored[f]]

\* the document after doc.save()
Clean(doc) == [doc EXCEPT !.mod = {}, !.pushed = << >>]

Save(gs, doc) == [gs EXCEPT ![doc.id] = Saved(@, doc)]

(***************************************************************************)
(* Requests in flight                                                      *)
(***************************************************************************)
Idle ==
  [pc |-> "idle", op |-> "-", user |-> NoUser, doc |-> NoDoc, uc |-> "-",
   rc |-> NoRatings, queue |-> << >>]

\* the step sends no response
NoResponse == [op |-> "-", user |-> NoUser, gid |-> 0, code |-> "-"]

\* res.status(...).json(...): the handler of slot r ends with this response
Respond(r, op, user, gid, code) ==
  /\ reqs' = [reqs EXCEPT ![r] = Idle]
  /\ last' = [op |-> op, user |-> user, gid |-> gid, code |-> code]

\* the handler of slot r goes on to its next await
Goto(r, slot) ==
  /\ reqs' = [reqs EXCEPT ![r] = slot]
  /\ last' = NoResponse

\* a slip of the server: a request is taken up only when no handler is in flight
ArrivesOneAtATime(r) ==
  /\ \A q \in Reqs : reqs[q].pc = "idle"
  /\ r = "r1"
  /\ budget > 0
  /\ budget' = budget - 1

\* a request arrives and its handler runs up to the await after the first read
\* (the handlers in flight are told apart by their slot only: a new one takes the
\* first free slot)
Arrives(r) ==
  /\ reqs[r].pc = "idle"
  /\ (r = "r2" => reqs["r1"].pc # "idle")
  /\ budget > 0
  /\ budget' = budget - 1

Exists(gid) == gid \in 1..Len(games)

(***************************************************************************)
(* makeMove: POST /api/game/:id/move                                       *)
(***************************************************************************)
\* the in-memory effect of an accepted ply
ApplyPly(doc, mv, t) ==
  LET d1 == PushMove(doc, mv)
      d2 == SetPath(d1, "fen", ChessFen(doc.g.fen, mv))
      d3 == SetPath(d2, "currentTurn", Other(doc.g.currentTurn))
      d4 == SetDate(d3, "lastMoveTime", t)
      d5 == SetWarning(d4, "white", FALSE)
  IN SetWarning(d5, "black", FALSE)

\* a slip of the handlers: the match is completed and endedAt is left unset
CompleteWithoutDate(doc, t) == SetPath(doc, "status", "completed")

\* game.status = 'completed'; game.endedAt = new Date()
Complete(doc, t) == SetDate(SetPath(doc, "status", "completed"), "endedAt", t)

MakeMove(r, u, gid, mv) ==
  /\ Arrives(r)
  /\ UNCHANGED <<games, users, now, io>>
  /\ IF ~Exists(gid) THEN Respond(r, "makeMove", u, gid, "not_found")
     ELSE
       LET doc == Load(games, users, gid)
           userColor == IF doc.g.white = u THEN "white" ELSE "black"
           played == ApplyPly(doc, mv, now)
           over == Complete(played, now)
           mate == SetPath(SetPath(over, "winner", u), "result",
                           IF userColor = "white" THEN "1-0" ELSE "0-1")
           draw == SetPath(over, "result", "1/2-1/2")
           slot == [Idle EXCEPT !.op = "makeMove", !.user = u, !.uc = userColor]
       IN
         IF doc.g.status # "active" THEN Respond(r, "makeMove", u, gid, "not_active")
         ELSE IF doc.g.white = NoUser THEN Respond(r, "makeMove", u, gid, "error")
         ELSE IF doc.g.currentTurn # userColor
           THEN Respond(r, "makeMove", u, gid, "not_your_turn")
         ELSE IF ~MoveAccepted(doc.g.fen, mv)
           THEN Respond(r, "makeMove", u, gid, "invalid_move")
         ELSE IF ~IsGameOver(played.g.fen)
           THEN Goto(r, [slot EXCEPT !.pc = "mm_save", !.doc = played])
         ELSE IF doc.g.black = NoUser THEN Respond(r, "makeMove", u, gid, "error")
         ELSE IF IsCheckmate(played.g.fen)
           THEN Goto(r, [slot EXCEPT !.pc = "mm_white", !.doc = mate,
                           !.rc = updateRatings(doc.wr, doc.br, mate.g.result)])
         ELSE Goto(r, [slot EXCEPT !.pc = "mm_white", !.doc = draw,
                         !.rc = updateRatings(doc.wr, doc.br, draw.g.result)])

\* await User.findByIdAndUpdate(game.players.white._id, ...)
MakeMoveWhite(r) ==
  /\ reqs[r].pc = "mm_white"
  /\ LET s == reqs[r]
         isDraw == s.doc.g.result = "1/2-1/2"
     IN users' = IncSet(users, s.doc.g.white,
                        IF ~isDraw /\ s.uc = "white" THEN 1 ELSE 0,
                        IF ~isDraw /\ s.uc # "white" THEN 1 ELSE 0,
                        IF isDraw THEN 1 ELSE 0,
                        s.rc.whiteRating)
  /\ Goto(r, [reqs[r] EXCEPT !.pc = "mm_black"])
  /\ UNCHANGED <<games, now, budget, io>>

\* await User.findByIdAndUpdate(game.players.black._id, ...)
MakeMoveBlack(r) ==
  /\ reqs[r].pc = "mm_black"
  /\ LET s == reqs[r]
         isDraw == s.doc.g.result = "1/2-1/2"
     IN users' = IncSet(users, s.doc.g.black,
                        IF ~isDraw /\ s.uc = "black" THEN 1 ELSE 0,
                        IF ~isDraw /\ s.uc # "black" THEN 1 ELSE 0,
                        IF isDraw THEN 1 ELSE 0,
                        s.rc.blackRating)
  /\ Goto(r, [reqs[r] EXCEPT !.pc = "mm_save"])
  /\ UNCHANGED <<games, now, budget, io>>

\* await game.save(); res.status(200)
MakeMoveSave(r) ==
  /\ reqs[r].pc = "mm_save"
  /\ games' = Save(games, reqs[r].doc)
  /\ Respond(r, "makeMove", reqs[r].user, reqs[r].doc.id, "ok")
  /\ UNCHANGED <<users, now, budget, io>>

(***************************************************************************)
(* abortGame: POST /api/game/:id/abort                                     *)
(***************************************************************************)
\* a slip of the comparison: abort is still accepted with 2 plies
TooLateToAbortOffByOne(g) == Len(g.moves) > 2

\* game.moves.length >= 2
TooLateToAbort(g) == Len(g.moves) >= 2

\* a slip of the order: the match is marked before the ply count is tested
AbortGameMarksFirst(r, u, gid) ==
  /\ Arrives(r)
  /\ UNCHANGED <<users, now, io>>
  /\ IF ~Exists(gid)
       THEN Respond(r, "abort", u, gid, "not_found") /\ UNCHANGED games
     ELSE
       LET doc == Load(games, users, gid)
           marked == SetDate(SetPath(doc, "status", "abandoned"), "endedAt", now)
       IN
         IF doc.g.status # "active"
           THEN Respond(r, "abort", u, gid, "not_active") /\ UNCHANGED games
         ELSE IF TooLateToAbort(doc.g)
           THEN /\ games' = Save(games, marked)
                /\ Respond(r, "abort", u, gid, "too_late")
         ELSE /\ Goto(r, [Idle EXCEPT !.pc = "ab_save", !.op = "abort",
                            !.user = u, !.doc = marked])
              /\ UNCHANGED games

AbortGame(r, u, gid) ==
  /\ Arrives(r)
  /\ UNCHANGED <<games, users, now, io>>
  /\ IF ~Exists(gid) THEN Respond(r, "abort", u, gid, "not_found")
     ELSE
       LET doc == Load(games, users, gid) IN
         IF doc.g.status # "active" THEN Respond(r, "abort", u, gid, "not_active")
         ELSE IF TooLateToAbort(doc.g) THEN Respond(r, "abort", u, gid, "too_late")
         ELSE Goto(r, [Idle EXCEPT !.pc = "ab_save", !.op = "abort", !.user = u,
                         !.doc = SetDate(SetPath(doc, "status", "abandoned"),
                                         "endedAt", now)])

\* await game.save(); res.status(200)
AbortSave(r) ==
  /\ reqs[r].pc = "ab_save"
  /\ games' = Save(games, reqs[r].doc)
  /\ Respond(r, "abort", reqs[r].user, reqs[r].doc.id, "ok")
  /\ UNCHANGED <<users, now, budget, io>>

(***************************************************************************)
(* resignGame: POST /api/game/:id/resign                                   *)
(***************************************************************************)
ResignGame(r, u, gid) ==
  /\ Arrives(r)
  /\ UNCHANGED <<games, users, now, io>>
  /\ IF ~Exists(gid) THEN Respond(r, "resign", u, gid, "not_found")
     ELSE
       LET doc == Load(games, users, gid)
           userColor == IF doc.g.white = u THEN "white" ELSE "black"
           result == IF userColor = "white" THEN "0-1" ELSE "1-0"
           winnerId == IF userColor = "white" THEN doc.g.black ELSE doc.g.white
           bot == SetPath(Complete(doc, now), "result", result)
           human == SetDate(SetPath(SetPath(SetPath(doc, "status", "completed"),
                                            "result", result),
                                    "winner", winnerId),
                            "endedAt", now)
           slot == [Idle EXCEPT !.op = "resign", !.user = u, !.uc = userColor]
       IN
         IF doc.g.status # "active" THEN Respond(r, "resign", u, gid, "not_active")
         ELSE IF doc.g.isBot
           THEN Goto(r, [slot EXCEPT !.pc = "rs_bot_save", !.doc = bot])
         ELSE Goto(r, [slot EXCEPT !.pc = "rs_white", !.doc = human,
                         !.rc = updateRatings(doc.wr, doc.br, result)])

\* bot match: await game.save()
ResignBotSave(r) ==
  /\ reqs[r].pc = "rs_bot_save"
  /\ games' = Save(games, reqs[r].doc)
  /\ Goto(r, [reqs[r] EXCEPT !.pc = "rs_bot_user", !.doc = Clean(@)])
  /\ UNCHANGED <<users, now, budget, io>>

\* bot match: await User.findByIdAndUpdate(req.user.id, {$inc: {..., rating: -5}})
ResignBotUser(r) ==
  /\ reqs[r].pc = "rs_bot_user"
  /\ users' = IncRating(users, reqs[r].user, 0, 1, 0, -5)
  /\ Respond(r, "resign", reqs[r].user, reqs[r].doc.id, "ok")
  /\ UNCHANGED <<games, now, budget, io>>

\* a slip of the $inc: the win and the loss are exchanged
ResignWhiteSwapped(r) ==
  /\ reqs[r].pc = "rs_white"
  /\ LET s == reqs[r]
     IN users' = IncSet(users, s.doc.g.white,
                        IF s.uc = "white" THEN 1 ELSE 0,
                        IF s.uc = "black" THEN 1 ELSE 0,
                        0, s.rc.whiteRating)
  /\ Goto(r, [reqs[r] EXCEPT !.pc = "rs_black"])
  /\ UNCHANGED <<games, now, budget, io>>

\* await User.findByIdAndUpdate(game.players.white._id, ...)
ResignWhite(r) ==
  /\ reqs[r].pc = "rs_white"
  /\ LET s == reqs[r]
     IN users' = IncSet(users, s.doc.g.white,
                        IF s.uc = "black" THEN 1 ELSE 0,
                        IF s.uc = "white" THEN 1 ELSE 0,
                        0, s.rc.whiteRating)
  /\ Goto(r, [reqs[r] EXCEPT !.pc = "rs_black"])
  /\ UNCHANGED <<games, now, budget, io>>

\* await User.findByIdAndUpdate(game.players.black._id, ...)
ResignBlack(r) ==
  /\ reqs[r].pc = "rs_black"
  /\ LET s == reqs[r]
     IN users' = IncSet(users, s.doc.g.black,
                        IF s.uc = "white" THEN 1 ELSE 0,
                        IF s.uc = "black" THEN 1 ELSE 0,
                        0, s.rc.blackRating)
  /\ Goto(r, [reqs[r] EXCEPT !.pc = "rs_save"])
  /\ UNCHANGED <<games, now, budget, io>>

\* await game.save(); res.status(200)
ResignSave(r) ==
  /\ reqs[r].pc = "rs_save"
  /\ games' = Save(games, reqs[r].doc)
  /\ Respond(r, "resign", reqs[r].user, reqs[r].doc.id, "ok")
  /\ UNCHANGED <<users, now, budget, io>>

(***************************************************************************)
(* TimeoutService: the periodic sweep                                      *)
(***************************************************************************)
\* a slip of the comparison: 90 seconds exactly are not enough
shouldTimeoutStrict(g, t) ==
  /\ g.status = "active"
  /\ (t - g.lastMoveTime) * TickMs > TIMEOUT_DURATION

shouldTimeout(g, t) ==
  /\ g.status = "active"
  /\ (t - g.lastMoveTime) * TickMs >= TIMEOUT_DURATION

shouldWarn(g, t) ==
  /\ g.status = "active"
  /\ (t - g.lastMoveTime) * TickMs >= WARNING_TIME
  /\ ~g.timeoutWarnings[g.currentTurn]

\* Game.find({status: 'active'}).populate(...)
ActiveGames(gs, us) ==
  SelectSeq([i \in 1..Len(gs) |-> Load(gs, us, i)],
            LAMBDA d : d.g.status = "active")

\* sendWarning up to its await game.save()
WarnedDoc(doc) == SetWarning(doc, doc.g.currentTurn, TRUE)

\* handleTimeout up to its first await
TimeoutSlot(doc, queue, t) ==
  LET abandonedPlayer == doc.g.currentTurn
      winningPlayer == Other(abandonedPlayer)
      result == IF winningPlayer = "white" THEN "1-0" ELSE "0-1"
      d1 == SetPath(doc, "status", "completed")
      d2 == SetPath(d1, "result", result)
      d3 == SetPath(d2, "winner", Player(doc.g, winningPlayer))
      d4 == SetPath(d3, "abandonedBy", abandonedPlayer)
      d5 == SetDate(d4, "endedAt", t)
  IN [Idle EXCEPT !.pc = "sw_winner", !.op = "sweep", !.doc = d5,
                  !.uc = abandonedPlayer, !.queue = queue,
                  !.rc = updateRatings(doc.wr, doc.br, result)]

\* a slip of the loop: no match is skipped
SkipsNoMatch(g) == FALSE

\* if (game.isBot) continue
SkipsMatch(g) == g.isBot

\* the loop of checkTimeouts from the head of queue up to the next await
RECURSIVE SweepLoop(_, _)
SweepLoop(queue, t) ==
  IF queue = << >> THEN Idle
  ELSE LET doc == Head(queue) IN
    IF SkipsMatch(doc.g) THEN SweepLoop(Tail(queue), t)
    ELSE IF shouldWarn(doc.g, t)
      THEN [Idle EXCEPT !.pc = "sw_warn", !.op = "sweep",
                        !.doc = WarnedDoc(doc), !.queue = Tail(queue)]
    ELSE IF shouldTimeout(doc.g, t) THEN TimeoutSlot(doc, Tail(queue), t)
    ELSE SweepLoop(Tail(queue), t)

\* setInterval fires: checkTimeouts reads the active matches
CheckTimeouts(r) ==
  /\ Arrives(r)
  /\ Goto(r, SweepLoop(ActiveGames(games, users), now))
  /\ UNCHANGED <<games, users, now, io>>

\* the interval timer of start() fires again and again, whatever is in flight
SweepFires(r) ==
  /\ reqs[r].pc = "idle"
  /\ (r = "r2" => reqs["r1"].pc # "idle")
  /\ Goto(r, SweepLoop(ActiveGames(games, users), now))
  /\ UNCHANGED <<games, users, now, budget, io>>

\* sendWarning: await game.save(), emit, then the timeout test of the loop
SendWarning(r) ==
  /\ reqs[r].pc = "sw_warn"
  /\ games' = Save(games, reqs[r].doc)
  /\ LET doc == Clean(reqs[r].doc) IN
       Goto(r, IF shouldTimeout(doc.g, now)
                 THEN TimeoutSlot(doc, reqs[r].queue, now)
                 ELSE SweepLoop(reqs[r].queue, now))
  /\ UNCHANGED <<users, now, budget, io>>

\* handleTimeout: await User.findByIdAndUpdate(winnerId, ...)
HandleTimeoutWinner(r) ==
  /\ reqs[r].pc = "sw_winner"
  /\ LET s == reqs[r]
         winningPlayer == Other(s.uc)
     IN users' = IncSet(users, Player(s.doc.g, winningPlayer), 1, 0, 0,
                        IF winningPlayer = "white" THEN s.rc.whiteRating
                        ELSE s.rc.blackRating)
  /\ Goto(r, [reqs[r] EXCEPT !.pc = "sw_loser"])
  /\ UNCHANGED <<games, now, budget, io>>

\* a slip of the penalty: the floor is left out
AbandonPenaltyNoFloor(loserRating) == loserRating - 10

\* Math.max(100, loserRating - 10)
AbandonPenalty(loserRating) ==
  IF loserRating - 10 > MinRating THEN loserRating - 10 ELSE MinRating

\* handleTimeout: await User.findByIdAndUpdate(loserId, ...)
HandleTimeoutLoser(r) ==
  /\ reqs[r].pc = "sw_loser"
  /\ LET s == reqs[r]
         loserRating == IF s.uc = "white" THEN s.rc.whiteRating
                        ELSE s.rc.blackRating
     IN users' = IncSet(users, Player(s.doc.g, s.uc), 0, 1, 0,
                        AbandonPenalty(loserRating))
  /\ Goto(r, [reqs[r] EXCEPT !.pc = "sw_save"])
  /\ UNCHANGED <<games, now, budget, io>>

\* handleTimeout: await game.save(), emit game:timeout, then the loop goes on
HandleTimeoutSave(r) ==
  /\ reqs[r].pc = "sw_save"
  /\ games' = Save(games, reqs[r].doc)
  /\ Goto(r, SweepLoop(reqs[r].queue, now))
  /\ UNCHANGED <<users, now, budget, io>>

\* time passes
Tick ==
  /\ now < MaxTick
  /\ now' = now + 1
  /\ last' = NoResponse
  /\ UNCHANGED <<games, users, reqs, budget, io>>

(***************************************************************************)
(* makeBotMove: POST /api/game/:id/move-bot                                *)
(***************************************************************************)
\* Game.findById(id), players not populated
LoadPlain(gs, gid) ==
  [id |-> gid, g |-> gs[gid], mod |-> {}, pushed |-> << >>, wr |-> 0, br |-> 0]

\* the result written when the bot's reply is checkmate
BotMateResult(g) == IF g.white # NoUser THEN "1-0" ELSE "0-1"

\* simpleAI.getSmartMove(fen): the moves it may return; none when no move is legal
getSmartMove(fen) == LegalMoves(fen)

MakeBotMove(r, u, gid, mv) ==
  /\ Arrives(r)
  /\ UNCHANGED <<games, users, now, io>>
  /\ IF ~Exists(gid) THEN Respond(r, "makeBotMove", u, gid, "invalid_bot_game")
     ELSE
       LET doc == LoadPlain(games, gid)
           played == ApplyPly(doc, mv, now)
           over == Complete(played, now)
           mate == SetPath(SetPath(over, "winner", u), "result",
                           IF doc.g.white = u THEN "1-0" ELSE "0-1")
           draw == SetPath(over, "result", "1/2-1/2")
           slot == [Idle EXCEPT !.op = "makeBotMove", !.user = u]
       IN
         IF ~doc.g.isBot THEN Respond(r, "makeBotMove", u, gid, "invalid_bot_game")
         ELSE IF doc.g.status # "active"
           THEN Respond(r, "makeBotMove", u, gid, "not_active")
         ELSE IF ~MoveAccepted(doc.g.fen, mv)
           THEN Respond(r, "makeBotMove", u, gid, "invalid_move")
         ELSE IF IsCheckmate(played.g.fen)
           THEN Goto(r, [slot EXCEPT !.pc = "mb_user", !.doc = mate])
         ELSE IF IsDraw(played.g.fen)
           THEN Goto(r, [slot EXCEPT !.pc = "mb_user", !.doc = draw])
         ELSE Goto(r, [slot EXCEPT !.pc = "mb_save", !.doc = played])

\* a slip of the update: the win over the bot is rated by the ELO helper
MakeBotMoveUserByElo(r) ==
  /\ reqs[r].pc = "mb_user"
  /\ users' = IF reqs[r].doc.g.result = "1/2-1/2"
                THEN IncRating(users, reqs[r].user, 0, 0, 1, 0)
                ELSE IncSet(users, reqs[r].user, 1, 0, 0,
                            updateRatings(users[reqs[r].user].rating,
                                          DefaultRating, "1-0").whiteRating)
  /\ Goto(r, [reqs[r] EXCEPT !.pc = "mb_end"])
  /\ UNCHANGED <<games, now, budget, io>>

\* the human's ply ended the game: await User.findByIdAndUpdate(req.user.id, ...)
MakeBotMoveUser(r) ==
  /\ reqs[r].pc = "mb_user"
  /\ users' = IF reqs[r].doc.g.result = "1/2-1/2"
                THEN IncRating(users, reqs[r].user, 0, 0, 1, 0)
                ELSE IncRating(users, reqs[r].user, 1, 0, 0, 10)
  /\ Goto(r, [reqs[r] EXCEPT !.pc = "mb_end"])
  /\ UNCHANGED <<games, now, budget, io>>

\* the human's ply ended the game: await game.save(); res.status(200)
MakeBotMoveEnd(r) ==
  /\ reqs[r].pc = "mb_end"
  /\ games' = Save(games, reqs[r].doc)
  /\ Respond(r, "makeBotMove", reqs[r].user, reqs[r].doc.id, "ok")
  /\ UNCHANGED <<users, now, budget, io>>

\* the human's ply is saved; the handler then waits for the thinking time
MakeBotMoveSave(r) ==
  /\ reqs[r].pc = "mb_save"
  /\ games' = Save(games, reqs[r].doc)
  /\ Goto(r, [reqs[r] EXCEPT !.pc = "mb_think", !.doc = Clean(@)])
  /\ UNCHANGED <<users, now, budget, io>>

\* the thinking time is over: the bot's reply is chosen and applied in memory
MakeBotMoveReply(r) ==
  /\ reqs[r].pc = "mb_think"
  /\ UNCHANGED <<games, users, now, budget, io>>
  /\ LET doc == reqs[r].doc IN
       IF getSmartMove(doc.g.fen) = {}
         THEN Goto(r, [reqs[r] EXCEPT !.pc = "mb_reply_save",
                         !.doc = SetPath(SetPath(doc, "status", "completed"),
                                         "result", "1/2-1/2")])
       ELSE \E botMove \in getSmartMove(doc.g.fen) :
         LET played == ApplyPly(doc, botMove, now)
             over == Complete(played, now)
         IN
           IF IsCheckmate(played.g.fen)
             THEN Goto(r, [reqs[r] EXCEPT !.pc = "mb_reply_user",
                             !.doc = SetPath(over, "result", BotMateResult(doc.g))])
           ELSE IF IsDraw(played.g.fen)
             THEN Goto(r, [reqs[r] EXCEPT !.pc = "mb_reply_user",
                             !.doc = SetPath(over, "result", "1/2-1/2")])
           ELSE Goto(r, [reqs[r] EXCEPT !.pc = "mb_reply_save", !.doc = played])

\* the bot's reply ended the game: await User.findByIdAndUpdate(req.user.id, ...)
MakeBotMoveReplyUser(r) ==
  /\ reqs[r].pc = "mb_reply_user"
  /\ users' = IF IsCheckmate(reqs[r].doc.g.fen)
                THEN IncRating(users, reqs[r].user, 0, 1, 0, -10)
                ELSE IncRating(users, reqs[r].user, 0, 0, 1, 0)
  /\ Goto(r, [reqs[r] EXCEPT !.pc = "mb_reply_save"])
  /\ UNCHANGED <<games, now, budget, io>>

\* await game.save(); res.status(200)
MakeBotMoveReplySave(r) ==
  /\ reqs[r].pc = "mb_reply_save"
  /\ games' = Save(games, reqs[r].doc)
  /\ Respond(r, "makeBotMove", reqs[r].user, reqs[r].doc.id, "ok")
  /\ UNCHANGED <<users, now, budget, io>>

(***************************************************************************)
(* createGame, createBotGame: POST /api/game/create, /create-bot           *)
(***************************************************************************)
\* Game.findOne({$or: [{'players.white': id}, {'players.black': id}], status: 'active'})
isUserBusy(gs, userId) ==
  \E i \in 1..Len(gs) :
    /\ gs[i].white = userId \/ gs[i].black = userId
    /\ gs[i].status = "active"

\* creations whose Game.create is still to come
Creating == {r \in Reqs : reqs[r].op \in {"createGame", "createBotGame"}
                          /\ reqs[r].doc = NoDoc}

\* the store of the model holds MaxGames matches at most
RoomToCreate == Len(games) + Cardinality(Creating) < MaxGames

\* the document of a match that is not stored yet
Fresh(g) == [id |-> 0, g |-> g, mod |-> {}, pushed |-> << >>, wr |-> 0, br |-> 0]

\* the ObjectId a query or a path casts a request's id string to: the hex digits
\* of an id are read in either case, "U1" is the id of u1 written in capitals
CastObjectId(id) == IF id = "U1" THEN "u1" ELSE id

\* User.findById(opponentId) and the self-play test req.user.id === opponentId
CreateGame(r, u, opponentId) ==
  /\ Arrives(r)
  /\ RoomToCreate
  /\ UNCHANGED <<games, users, now, io>>
  /\ IF CastObjectId(opponentId) \notin DOMAIN users
       THEN Respond(r, "createGame", u, 0, "opponent_not_found")
     ELSE IF u = opponentId
       THEN Respond(r, "createGame", u, 0, "self_play")
     ELSE Goto(r, [Idle EXCEPT !.pc = "cg_user", !.op = "createGame", !.user = u,
                     !.uc = opponentId])

\* await isUserBusy(req.user.id)
CreateGameUserBusy(r) ==
  /\ reqs[r].pc = "cg_user"
  /\ UNCHANGED <<games, users, now, budget, io>>
  /\ IF isUserBusy(games, reqs[r].user)
       THEN Respond(r, "createGame", reqs[r].user, 0, "USER_BUSY")
     ELSE Goto(r, [reqs[r] EXCEPT !.pc = "cg_opponent"])

\* await isUserBusy(opponentId), then the coin flip
CreateGameOpponentBusy(r) ==
  /\ reqs[r].pc = "cg_opponent"
  /\ UNCHANGED <<games, users, now, budget, io>>
  /\ IF isUserBusy(games, CastObjectId(reqs[r].uc))
       THEN Respond(r, "createGame", reqs[r].user, 0, "OPPONENT_BUSY")
     ELSE \E isUserWhite \in BOOLEAN :
       Goto(r, [reqs[r] EXCEPT !.pc = IF isUserWhite THEN "cg_create_white"
                                      ELSE "cg_create_black"])

\* await Game.create({players, status: 'active'}); res.status(201)
CreateGameCreate(r) ==
  /\ reqs[r].pc \in {"cg_create_white", "cg_create_black"}
  /\ LET isUserWhite == reqs[r].pc = "cg_create_white"
         u == reqs[r].user
         opponentId == CastObjectId(reqs[r].uc)
     IN games' = Append(games, NewGame(IF isUserWhite THEN u ELSE opponentId,
                                       IF isUserWhite THEN opponentId ELSE u,
                                       FALSE, now))
  /\ Respond(r, "createGame", reqs[r].user, Len(games) + 1, "created")
  /\ UNCHANGED <<users, now, budget, io>>

\* await isUserBusy(req.user.id), then the coin flip
CreateBotGame(r, u) ==
  /\ Arrives(r)
  /\ RoomToCreate
  /\ UNCHANGED <<games, users, now, io>>
  /\ IF isUserBusy(games, u) THEN Respond(r, "createBotGame", u, 0, "USER_BUSY")
     ELSE \E isUserWhite \in BOOLEAN :
       Goto(r, [Idle EXCEPT !.pc = IF isUserWhite THEN "cb_create_white"
                                   ELSE "cb_create_black",
                            !.op = "createBotGame", !.user = u])

\* await Game.create({players, isBot: true, status: 'active'})
CreateBotGameCreate(r) ==
  /\ reqs[r].pc \in {"cb_create_white", "cb_create_black"}
  /\ LET isUserWhite == reqs[r].pc = "cb_create_white"
         u == reqs[r].user
         game == NewGame(IF isUserWhite THEN u ELSE NoUser,
                         IF isUserWhite THEN NoUser ELSE u, TRUE, now)
     IN /\ games' = Append(games, game)
        /\ IF isUserWhite
             THEN Respond(r, "createBotGame", u, Len(games) + 1, "created")
           ELSE Goto(r, [reqs[r] EXCEPT !.pc = "cb_wait",
                           !.doc = [Fresh(game) EXCEPT !.id = Len(games) + 1]])
  /\ UNCHANGED <<users, now, budget, io>>

\* a slip of the opening: the ply is applied and the turn is left with white
CreateBotGameOpeningKeepsTurn(r) ==
  /\ reqs[r].pc = "cb_wait"
  /\ UNCHANGED <<games, users, now, budget, io>>
  /\ LET doc == reqs[r].doc IN
       \E botMove \in getSmartMove(doc.g.fen) :
         LET d1 == PushMove(doc, botMove)
             d2 == SetPath(d1, "fen", ChessFen(doc.g.fen, botMove))
         IN Goto(r, [reqs[r] EXCEPT !.pc = "cb_save",
                       !.doc = SetDate(d2, "lastMoveTime", now)])

\* the bot has white: after the 800 ms wait its opening ply is chosen and applied
CreateBotGameOpening(r) ==
  /\ reqs[r].pc = "cb_wait"
  /\ UNCHANGED <<games, users, now, budget, io>>
  /\ LET doc == reqs[r].doc IN
       IF getSmartMove(doc.g.fen) = {}
         THEN Respond(r, "createBotGame", reqs[r].user, doc.id, "created")
       ELSE \E botMove \in getSmartMove(doc.g.fen) :
         LET d1 == PushMove(doc, botMove)
             d2 == SetPath(d1, "fen", ChessFen(doc.g.fen, botMove))
             d3 == SetPath(d2, "currentTurn", "black")
         IN Goto(r, [reqs[r] EXCEPT !.pc = "cb_save",
                       !.doc = SetDate(d3, "lastMoveTime", now)])

\* await game.save(); res.status(201)
CreateBotGameSave(r) ==
  /\ reqs[r].pc = "cb_save"
  /\ games' = Save(games, reqs[r].doc)
  /\ Respond(r, "createBotGame", reqs[r].user, reqs[r].doc.id, "created")
  /\ UNCHANGED <<users, now, budget, io>>

(***************************************************************************)
(* Store failures: an awaited write rejects and the handler's catch runs   *)
(***************************************************************************)
\* makeMove, resignGame: catch (error) { res.status(500) }
StoreFails(r) ==
  /\ reqs[r].pc \in {"mm_white", "mm_black", "mm_save",
                     "rs_white", "rs_black", "rs_save"}
  /\ Respond(r, reqs[r].op, reqs[r].user, reqs[r].doc.id, "error")
  /\ UNCHANGED <<games, users, now, budget, io>>

\* a slip of the monitor: the error ends the sweep, as if only checkTimeouts
\* had a catch
SweepStoreFailsEndsSweep(r) ==
  /\ reqs[r].pc \in {"sw_warn", "sw_winner", "sw_loser", "sw_save"}
  /\ reqs' = [reqs EXCEPT ![r] = Idle]
  /\ last' = [op |-> "sweep", user |-> NoUser, gid |-> reqs[r].doc.id,
              code |-> "error"]
  /\ UNCHANGED <<games, users, now, budget, io>>

\* sendWarning, handleTimeout: catch (error) { console.error }, and the loop of
\* checkTimeouts goes on
SweepStoreFails(r) ==
  /\ reqs[r].pc \in {"sw_warn", "sw_winner", "sw_loser", "sw_save"}
  /\ reqs' = [reqs EXCEPT ![r] =
                IF reqs[r].pc = "sw_warn" /\ shouldTimeout(reqs[r].doc.g, now)
                  THEN TimeoutSlot(reqs[r].doc, reqs[r].queue, now)
                  ELSE SweepLoop(reqs[r].queue, now)]
  /\ last' = [op |-> "sweep", user |-> NoUser, gid |-> reqs[r].doc.id,
              code |-> "error"]
  /\ UNCHANGED <<games, users, now, budget, io>>

(***************************************************************************)
(* getGame: GET /api/game/:id                                              *)
(***************************************************************************)
\* Game.findById(req.params.id), the isPlayer test, res.status(...)
GetGame(r, u, gid) ==
  /\ Arrives(r)
  /\ UNCHANGED <<games, users, now, io>>
  /\ IF ~Exists(gid) THEN Respond(r, "getGame", u, gid, "not_found")
     ELSE LET game == games[gid]
              isPlayer == game.white = u \/ game.black = u
          IN IF ~isPlayer THEN Respond(r, "getGame", u, gid, "forbidden")
             ELSE Respond(r, "getGame", u, gid, "ok")

(***************************************************************************)
(* socketHandler: the push channel                                         *)
(*                                                                         *)
(* io.sockets holds the connections, io.activeUsers the in-memory map of   *)
(* the handler.  An emit is recorded in last: op is the event, user the    *)
(* socket's user, gid the room or match, code the sockets it reaches.      *)
(***************************************************************************)
\* the connections a behaviour follows
Sockets == {"s1", "s2"}

\* the one connection followed beside the REST routes
RouteSockets == {"s1"}

\* no game:move event of the client is on its way
NoEvent == [gameId |-> 0, move |-> "-", notifies |-> FALSE]

NoSocket ==
  [userId |-> NoUser, connected |-> FALSE, rooms |-> {}, currentGame |-> 0,
   inbox |-> NoEvent]

\* activeUsers has no entry for the user
NoEntry == [socketId |-> "-", gameId |-> -1]

NoIo == [sockets |-> [s \in Sockets |-> NoSocket],
         activeUsers |-> [u \in Users |-> NoEntry]]

\* the connected sockets that joined the room
Room(gameId) ==
  {s \in Sockets : io.sockets[s].connected /\ gameId \in io.sockets[s].rooms}

\* socket.emit(event, ...): the event goes to the socket itself
SocketEmit(s, event, gameId) ==
  last' = [op |-> event, user |-> io.sockets[s].userId, gid |-> gameId,
           code |-> {s}]

\* io.to(room).emit, socket.to(room).emit, io.emit: the event goes to the
\* sockets named, and the transport may lose it on the way to any of them
Broadcast(s, event, gameId, to) ==
  \E reached \in SUBSET to :
    last' = [op |-> event, user |-> io.sockets[s].userId, gid |-> gameId,
             code |-> reached]

\* userData.gameId = gameId, when activeUsers has the user
SetActiveGame(userId, gameId) ==
  IF io.activeUsers[userId] = NoEntry THEN io.activeUsers
  ELSE [io.activeUsers EXCEPT ![userId].gameId = gameId]

\* io.use and io.on('connection'): the token names a registered user
Connection(s, u) ==
  /\ ~io.sockets[s].connected
  /\ io' = [sockets |-> [io.sockets EXCEPT
                           ![s] = [NoSocket EXCEPT !.userId = u,
                                                   !.connected = TRUE]],
            activeUsers |-> [io.activeUsers EXCEPT
                               ![u] = [socketId |-> s, gameId |-> 0]]]
  /\ last' = [op |-> "users:count", user |-> u, gid |-> 0,
              code |-> {q \in Sockets : io.sockets[q].connected} \cup {s}]
  /\ UNCHANGED <<games, users, reqs, now, budget>>

\* socket.on('game:join')
GameJoin(s, gameId) ==
  /\ io.sockets[s].connected
  /\ UNCHANGED <<games, users, reqs, now, budget>>
  /\ LET userId == io.sockets[s].userId IN
       IF ~Exists(gameId)
         THEN SocketEmit(s, "error:Game not found", gameId) /\ UNCHANGED io
       ELSE
         LET game == games[gameId]
             isPlayer == game.white = userId \/ game.black = userId
         IN IF ~isPlayer /\ ~game.isBot
              THEN /\ SocketEmit(s, "error:You are not a player in this game",
                                 gameId)
                   /\ UNCHANGED io
            ELSE /\ io' = [sockets |-> [io.sockets EXCEPT
                                          ![s].rooms = @ \cup {gameId},
                                          ![s].currentGame = gameId],
                           activeUsers |-> SetActiveGame(userId, gameId)]
                 /\ SocketEmit(s, "game:state", gameId)

\* Game.jsx handleMove, socketService.notifyMove: the client emits game:move;
\* it notifies of its ply when the REST call has just succeeded, and a client
\* may emit the event with any payload at any time
EmitGameMove(s, gameId, move) ==
  /\ io.sockets[s].connected
  /\ io.sockets[s].inbox = NoEvent
  /\ io' = [io EXCEPT !.sockets[s].inbox =
              [gameId |-> gameId, move |-> move,
               notifies |-> last = [op |-> "makeMove",
                                    user |-> io.sockets[s].userId,
                                    gid |-> gameId, code |-> "ok"]]]
  /\ last' = NoResponse
  /\ UNCHANGED <<games, users, reqs, now, budget>>

\* a slip of the handler: the move of the event is applied to the match
GameMoveApplies(s) ==
  /\ io.sockets[s].connected
  /\ io.sockets[s].inbox # NoEvent
  /\ io' = [io EXCEPT !.sockets[s].inbox = NoEvent]
  /\ UNCHANGED <<users, reqs, now, budget>>
  /\ LET ev == io.sockets[s].inbox IN
       IF ~Exists(ev.gameId)
         THEN SocketEmit(s, "error:Game not found", ev.gameId) /\ UNCHANGED games
       ELSE /\ games' = [games EXCEPT ![ev.gameId].moves = Append(@, ev.move)]
            /\ Broadcast(s, "game:move-made", ev.gameId, Room(ev.gameId))

\* socket.on('game:move')
GameMove(s) ==
  /\ io.sockets[s].connected
  /\ io.sockets[s].inbox # NoEvent
  /\ io' = [io EXCEPT !.sockets[s].inbox = NoEvent]
  /\ UNCHANGED <<games, users, reqs, now, budget>>
  /\ LET ev == io.sockets[s].inbox
         userId == io.sockets[s].userId
     IN
       IF ~Exists(ev.gameId) THEN SocketEmit(s, "error:Game not found", ev.gameId)
       ELSE
         LET game == games[ev.gameId]
             isWhitePlayer == game.white = userId
             isBlackPlayer == game.black = userId
             currentTurn == game.currentTurn
         IN IF \/ currentTurn = "white" /\ ~isWhitePlayer
               \/ currentTurn = "black" /\ ~isBlackPlayer
              THEN SocketEmit(s, "error:Not your turn", ev.gameId)
            ELSE Broadcast(s, "game:move-made", ev.gameId, Room(ev.gameId))

\* socket.on('game:leave')
GameLeave(s, gameId) ==
  /\ io.sockets[s].connected
  /\ io' = [sockets |-> [io.sockets EXCEPT ![s].rooms = @ \ {gameId}],
            activeUsers |-> SetActiveGame(io.sockets[s].userId, 0)]
  /\ Broadcast(s, "game:player-left", gameId, Room(gameId) \ {s})
  /\ UNCHANGED <<games, users, reqs, now, budget>>

\* socket.on('chat:typing')
ChatTyping(s, gameId) ==
  /\ io.sockets[s].connected
  /\ Broadcast(s, "chat:user-typing", gameId, Room(gameId) \ {s})
  /\ UNCHANGED <<games, users, reqs, now, budget, io>>

\* socket.on('disconnect'): the socket has left its rooms
Disconnect(s) ==
  /\ io.sockets[s].connected
  /\ io' = [sockets |-> [io.sockets EXCEPT ![s] = NoSocket],
            activeUsers |-> [io.activeUsers EXCEPT
                               ![io.sockets[s].userId] = NoEntry]]
  /\ Broadcast(s, "users:count", 0,
               {q \in Sockets : io.sockets[q].connected} \ {s})
  /\ UNCHANGED <<games, users, reqs, now, budget>>

(***************************************************************************)
(* A human match between u1 and u2, with u3 looking on                     *)
(***************************************************************************)
InitCommon ==
  /\ users = [u \in Users |-> NewUser]
  /\ reqs = [r \in Reqs |-> Idle]
  /\ now = 0
  /\ last = NoResponse
  /\ io = NoIo

\* the store after createGame between u1 and u2 gave u1 the white pieces
Init ==
  /\ InitCommon
  /\ budget = MaxRequests
  /\ games = << NewGame("u1", "u2", FALSE, 0) >>

Next ==
  \/ \E r \in Reqs, u \in Users, gid \in GameIds, mv \in MoveInputs :
       MakeMove(r, u, gid, mv)
  \/ \E r \in Reqs : MakeMoveWhite(r)
  \/ \E r \in Reqs : MakeMoveBlack(r)
  \/ \E r \in Reqs : MakeMoveSave(r)
  \/ \E r \in Reqs, u \in Users, gid \in GameIds : AbortGame(r, u, gid)
  \/ \E r \in Reqs : AbortSave(r)
  \/ \E r \in Reqs, u \in Users, gid \in GameIds : ResignGame(r, u, gid)
  \/ \E r \in Reqs : ResignWhite(r)
  \/ \E r \in Reqs : ResignBlack(r)
  \/ \E r \in Reqs : ResignSave(r)
  \/ \E r \in Reqs : CheckTimeouts(r)
  \/ \E r \in Reqs : SendWarning(r)
  \/ \E r \in Reqs : HandleTimeoutWinner(r)
  \/ \E r \in Reqs : HandleTimeoutLoser(r)
  \/ \E r \in Reqs : HandleTimeoutSave(r)
  \/ Tick

Spec == Init /\ [][Next]_vars

(***************************************************************************)
(* A bot match of u1, with u3 looking on                                   *)
(***************************************************************************)
BotMatchUsers == {"u1", "u3"}

\* the store after createBotGame by u1: u1 has white and no ply is played, or
\* the bot has white and has played its opening ply
InitBot ==
  /\ InitCommon
  /\ budget = MaxBotRequests
  /\ \/ games = << NewGame("u1", NoUser, TRUE, 0) >>
     \/ games = << [NewGame(NoUser, "u1", TRUE, 0) EXCEPT
                      !.moves = << "n" >>, !.fen = ChessFen(StartFen, "n"),
                      !.currentTurn = "black"] >>

NextBot ==
  \/ \E r \in Reqs, u \in BotMatchUsers, gid \in GameIds, mv \in MoveInputs :
       MakeBotMove(r, u, gid, mv)
  \/ \E r \in Reqs : MakeBotMoveUser(r)
  \/ \E r \in Reqs : MakeBotMoveEnd(r)
  \/ \E r \in Reqs : MakeBotMoveSave(r)
  \/ \E r \in Reqs : MakeBotMoveReply(r)
  \/ \E r \in Reqs : MakeBotMoveReplyUser(r)
  \/ \E r \in Reqs : MakeBotMoveReplySave(r)
  \/ \E r \in Reqs, u \in BotMatchUsers, gid \in GameIds, mv \in MoveInputs :
       MakeMove(r, u, gid, mv)
  \/ \E r \in Reqs : MakeMoveSave(r)
  \/ \E r \in Reqs, u \in BotMatchUsers, gid \in GameIds : AbortGame(r, u, gid)
  \/ \E r \in Reqs : AbortSave(r)
  \/ \E r \in Reqs, u \in BotMatchUsers, gid \in GameIds : ResignGame(r, u, gid)
  \/ \E r \in Reqs : ResignBotSave(r)
  \/ \E r \in Reqs : ResignBotUser(r)
  \/ \E r \in Reqs : CheckTimeouts(r)
  \/ Tick

SpecBot == InitBot /\ [][NextBot]_vars

(***************************************************************************)
(* Match creation on an empty store                                        *)
(***************************************************************************)
\* opponentId of a request: a registered user's id, u1's id in capitals, or an
\* id that resolves to no user
OpponentIds == Users \cup {"U1", "u0"}

InitCreate ==
  /\ InitCommon
  /\ budget = MaxRequests
  /\ games = << >>

NextCreate ==
  \/ \E r \in Reqs, u \in Users, opponentId \in OpponentIds :
       CreateGame(r, u, opponentId)
  \/ \E r \in Reqs : CreateGameUserBusy(r)
  \/ \E r \in Reqs : CreateGameOpponentBusy(r)
  \/ \E r \in Reqs : CreateGameCreate(r)
  \/ \E r \in Reqs, u \in Users : CreateBotGame(r, u)
  \/ \E r \in Reqs : CreateBotGameCreate(r)
  \/ \E r \in Reqs : CreateBotGameOpening(r)
  \/ \E r \in Reqs : CreateBotGameSave(r)
  \/ Tick

SpecCreate == InitCreate /\ [][NextCreate]_vars

(***************************************************************************)
(* A human match between participants of any rating, left to the monitor   *)
(***************************************************************************)
\* ratings the participants may have reached in earlier matches
RatingSamples == {95, 110, 1200, 1400}

InitForfeit ==
  /\ reqs = [r \in Reqs |-> Idle]
  /\ now = 0
  /\ last = NoResponse
  /\ io = NoIo
  /\ budget = MaxRequests
  /\ games = << NewGame("u1", "u2", FALSE, 0) >>
  /\ \E a \in RatingSamples, b \in RatingSamples :
       users = [u \in Users |->
                  IF u = "u1" THEN [NewUser EXCEPT !.rating = a]
                  ELSE IF u = "u2" THEN [NewUser EXCEPT !.rating = b]
                  ELSE NewUser]

NextForfeit ==
  \/ \E r \in Reqs, u \in {"u1", "u2"}, gid \in GameIds :
       MakeMove(r, u, gid, "n")
  \/ \E r \in Reqs : MakeMoveSave(r)
  \/ \E r \in Reqs : CheckTimeouts(r)
  \/ \E r \in Reqs : SendWarning(r)
  \/ \E r \in Reqs : HandleTimeoutWinner(r)
  \/ \E r \in Reqs : HandleTimeoutLoser(r)
  \/ \E r \in Reqs : HandleTimeoutSave(r)
  \/ Tick

SpecForfeit == InitForfeit /\ [][NextForfeit]_vars

(***************************************************************************)
(* The monitor running for ever beside the plies of a human match          *)
(***************************************************************************)
NextLive ==
  \/ \E r \in Reqs, u \in {"u1", "u2"}, gid \in GameIds :
       MakeMove(r, u, gid, "n")
  \/ \E r \in Reqs : MakeMoveSave(r)
  \/ \E r \in Reqs : SweepFires(r)
  \/ \E r \in Reqs : SendWarning(r)
  \/ \E r \in Reqs : HandleTimeoutWinner(r)
  \/ \E r \in Reqs : HandleTimeoutLoser(r)
  \/ \E r \in Reqs : HandleTimeoutSave(r)
  \/ Tick

\* the timer keeps firing and every awaited store operation returns
SpecLive ==
  /\ Init
  /\ [][NextLive]_vars
  /\ WF_vars(\E r \in Reqs : SweepFires(r))
  /\ WF_vars(\E r \in Reqs : SendWarning(r))
  /\ WF_vars(\E r \in Reqs : HandleTimeoutWinner(r))
  /\ WF_vars(\E r \in Reqs : HandleTimeoutLoser(r))
  /\ WF_vars(\E r \in Reqs : HandleTimeoutSave(r))
  /\ WF_vars(\E r \in Reqs : MakeMoveSave(r))

(***************************************************************************)
(* A human match between participants of any rating, played to its end     *)
(***************************************************************************)
NextRate ==
  \/ \E r \in Reqs, u \in {"u1", "u2"}, gid \in GameIds, mv \in MoveInputs :
       MakeMove(r, u, gid, mv)
  \/ \E r \in Reqs : MakeMoveWhite(r)
  \/ \E r \in Reqs : MakeMoveBlack(r)
  \/ \E r \in Reqs : MakeMoveSave(r)
  \/ \E r \in Reqs, u \in {"u1", "u2"}, gid \in GameIds : ResignGame(r, u, gid)
  \/ \E r \in Reqs : ResignWhite(r)
  \/ \E r \in Reqs : ResignBlack(r)
  \/ \E r \in Reqs : ResignSave(r)

SpecRate == InitForfeit /\ [][NextRate]_vars

(***************************************************************************)
(* A human match on a store whose writes may fail                          *)
(***************************************************************************)
NextFail ==
  \/ \E r \in Reqs, u \in {"u1", "u2"}, gid \in GameIds, mv \in {"n", "m"} :
       MakeMove(r, u, gid, mv)
  \/ \E r \in Reqs : MakeMoveWhite(r)
  \/ \E r \in Reqs : MakeMoveBlack(r)
  \/ \E r \in Reqs : MakeMoveSave(r)
  \/ \E r \in Reqs, u \in {"u1", "u2"}, gid \in GameIds : ResignGame(r, u, gid)
  \/ \E r \in Reqs : ResignWhite(r)
  \/ \E r \in Reqs : ResignBlack(r)
  \/ \E r \in Reqs : ResignSave(r)
  \/ \E r \in Reqs : CheckTimeouts(r)
  \/ \E r \in Reqs : SendWarning(r)
  \/ \E r \in Reqs : HandleTimeoutWinner(r)
  \/ \E r \in Reqs : HandleTimeoutLoser(r)
  \/ \E r \in Reqs : HandleTimeoutSave(r)
  \/ \E r \in Reqs : StoreFails(r)
  \/ \E r \in Reqs : SweepStoreFails(r)
  \/ Tick

SpecFail == Init /\ [][NextFail]_vars

(***************************************************************************)
(* Every route, on a store that holds the match between u1 and u2          *)
(***************************************************************************)
NextRoutes ==
  \/ \E r \in Reqs, u \in Users, gid \in GameIds, mv \in MoveInputs :
       MakeMove(r, u, gid, mv)
  \/ \E r \in Reqs : MakeMoveWhite(r)
  \/ \E r \in Reqs : MakeMoveBlack(r)
  \/ \E r \in Reqs : MakeMoveSave(r)
  \/ \E r \in Reqs, u \in Users, gid \in GameIds : AbortGame(r, u, gid)
  \/ \E r \in Reqs : AbortSave(r)
  \/ \E r \in Reqs, u \in Users, gid \in GameIds : ResignGame(r, u, gid)
  \/ \E r \in Reqs : ResignBotSave(r)
  \/ \E r \in Reqs : ResignBotUser(r)
  \/ \E r \in Reqs : ResignWhite(r)
  \/ \E r \in Reqs : ResignBlack(r)
  \/ \E r \in Reqs : ResignSave(r)
  \/ \E r \in Reqs, u \in Users, gid \in GameIds, mv \in MoveInputs :
       MakeBotMove(r, u, gid, mv)
  \/ \E r \in Reqs : MakeBotMoveUser(r)
  \/ \E r \in Reqs : MakeBotMoveEnd(r)
  \/ \E r \in Reqs : MakeBotMoveSave(r)
  \/ \E r \in Reqs : MakeBotMoveReply(r)
  \/ \E r \in Reqs : MakeBotMoveReplyUser(r)
  \/ \E r \in Reqs : MakeBotMoveReplySave(r)
  \/ \E r \in Reqs, u \in Users, opponentId \in OpponentIds :
       CreateGame(r, u, opponentId)
  \/ \E r \in Reqs : CreateGameUserBusy(r)
  \/ \E r \in Reqs : CreateGameOpponentBusy(r)
  \/ \E r \in Reqs : CreateGameCreate(r)
  \/ \E r \in Reqs, u \in Users : CreateBotGame(r, u)
  \/ \E r \in Reqs : CreateBotGameCreate(r)
  \/ \E r \in Reqs : CreateBotGameOpening(r)
  \/ \E r \in Reqs : CreateBotGameSave(r)

SpecRoutes == Init /\ [][NextRoutes]_vars

(***************************************************************************)
(* A bot match of u3 beside the human match between u1 and u2              *)
(***************************************************************************)
\* the next step of the handler in slot r, whatever it is waiting for
Continue(r) ==
  \/ MakeMoveWhite(r) \/ MakeMoveBlack(r) \/ MakeMoveSave(r)
  \/ AbortSave(r)
  \/ ResignWhite(r) \/ ResignBlack(r) \/ ResignSave(r)
  \/ SendWarning(r)
  \/ HandleTimeoutWinner(r) \/ HandleTimeoutLoser(r) \/ HandleTimeoutSave(r)
  \/ MakeBotMoveUser(r) \/ MakeBotMoveEnd(r) \/ MakeBotMoveSave(r)
  \/ MakeBotMoveReply(r) \/ MakeBotMoveReplyUser(r) \/ MakeBotMoveReplySave(r)
  \/ CreateBotGameCreate(r) \/ CreateBotGameOpening(r) \/ CreateBotGameSave(r)

\* the store holds the match between u1 and u2 and, unless u3 is still to
\* create it, the bot match of u3, who has white
InitDelay ==
  /\ InitCommon
  /\ budget = MaxBotRequests
  /\ \/ games = << NewGame("u1", "u2", FALSE, 0) >>
     \/ games = << NewGame("u1", "u2", FALSE, 0), NewGame("u3", NoUser, TRUE, 0) >>

NextDelay ==
  \/ \E r \in Reqs : CreateBotGame(r, "u3")
  \/ \E r \in Reqs, gid \in GameIds, mv \in MoveInputs :
       MakeBotMove(r, "u3", gid, mv)
  \/ \E r \in Reqs, u \in {"u1", "u2"}, mv \in MoveInputs : MakeMove(r, u, 1, mv)
  \/ \E r \in Reqs, u \in {"u1", "u2"} : AbortGame(r, u, 1)
  \/ \E r \in Reqs, u \in {"u1", "u2"} : ResignGame(r, u, 1)
  \/ \E r \in Reqs : CheckTimeouts(r)
  \/ \E r \in Reqs : Continue(r)
  \/ Tick

SpecDelay == InitDelay /\ [][NextDelay]_vars

(***************************************************************************)
(* The push channel beside the REST routes of a human and a bot match      *)
(***************************************************************************)
\* the moves a client names in a game:move event
EventMoves == {"n", "x"}

InitSocket ==
  /\ InitCommon
  /\ budget = MaxBotRequests
  /\ games = << NewGame("u1", "u2", FALSE, 0), NewGame("u3", NoUser, TRUE, 0) >>

NextSocket ==
  \/ \E s \in RouteSockets, u \in Users : Connection(s, u)
  \/ \E s \in RouteSockets, gameId \in GameIds : GameJoin(s, gameId)
  \/ \E s \in RouteSockets, gameId \in GameIds, move \in EventMoves :
       EmitGameMove(s, gameId, move)
  \/ \E s \in RouteSockets : GameMove(s)
  \/ \E s \in RouteSockets, gameId \in GameIds : GameLeave(s, gameId)
  \/ \E s \in RouteSockets, gameId \in GameIds : ChatTyping(s, gameId)
  \/ \E s \in RouteSockets : Disconnect(s)
  \/ \E r \in Reqs, u \in Users, gid \in GameIds : GetGame(r, u, gid)
  \/ \E r \in Reqs, u \in {"u1", "u2"}, mv \in MoveInputs : MakeMove(r, u, 1, mv)
  \/ \E r \in Reqs : MakeMoveWhite(r)
  \/ \E r \in Reqs : MakeMoveBlack(r)
  \/ \E r \in Reqs : MakeMoveSave(r)

\* every handler that has started goes on: the server keeps running
SpecSocket ==
  /\ InitSocket
  /\ [][NextSocket]_vars
  /\ \A s \in RouteSockets : WF_vars(GameMove(s))
  /\ \A r \in Reqs :
       WF_vars(MakeMoveWhite(r) \/ MakeMoveBlack(r) \/ MakeMoveSave(r))

(***************************************************************************)
(* The monitor over two human matches, with store failures                 *)
(***************************************************************************)
\* the store holds the matches u1 against u2 and u3 against u4, both unplayed
InitSweep ==
  /\ users = [u \in Users \cup {"u4"} |-> NewUser]
  /\ reqs = [r \in Reqs |-> Idle]
  /\ now = 0
  /\ last = NoResponse
  /\ io = NoIo
  /\ budget = MaxBotRequests
  /\ games = << NewGame("u1", "u2", FALSE, 0), NewGame("u3", "u4", FALSE, 0) >>

NextSweep ==
  \/ \E r \in Reqs : CheckTimeouts(r)
  \/ \E r \in Reqs : SendWarning(r)
  \/ \E r \in Reqs : HandleTimeoutWinner(r)
  \/ \E r \in Reqs : HandleTimeoutLoser(r)
  \/ \E r \in Reqs : HandleTimeoutSave(r)
  \/ \E r \in Reqs : SweepStoreFails(r)
  \/ Tick

SpecSweep == InitSweep /\ [][NextSweep]_vars

(***************************************************************************)
(* The connection registry: two sockets, any user behind each              *)
(***************************************************************************)
InitRegistry ==
  /\ InitCommon
  /\ budget = 0
  /\ games = << NewGame("u1", "u2", FALSE, 0) >>

NextRegistry ==
  \/ \E s \in Sockets, u \in Users : Connection(s, u)
  \/ \E s \in Sockets, gameId \in GameIds : GameJoin(s, gameId)
  \/ \E s \in Sockets, gameId \in GameIds : GameLeave(s, gameId)
  \/ \E s \in Sockets : Disconnect(s)

SpecRegistry == InitRegistry /\ [][NextRegistry]_vars

(***************************************************************************)
(* SimpleAI.getSmartMove, move by move                                     *)
(*                                                                         *)
(* The selector sees a position through chess.moves({verbose: true}) only: *)
(* here a position is that list.  A move carries, beside from, to and      *)
(* promotion, the verdict of the two checks of filterBadMoves on it (safe) *)
(* and the number evaluateMove returns for it (score).                     *)
(***************************************************************************)
\* from, to and promotion of the moves the rules engine may list; a promotion
\* is listed once for each piece
BaseMoves ==
  { [from |-> "e2", to |-> "e4", promotion |-> ""],
    [from |-> "g1", to |-> "f3", promotion |-> ""],
    [from |-> "e7", to |-> "e8", promotion |-> "q"],
    [from |-> "e7", to |-> "e8", promotion |-> "n"] }

Scores == {0, 1, 2}

VerboseMoves ==
  { [from |-> b.from, to |-> b.to, promotion |-> b.promotion,
     safe |-> sf, score |-> sc] : b \in BaseMoves, sf \in BOOLEAN, sc \in Scores }

Base(m) == [from |-> m.from, to |-> m.to, promotion |-> m.promotion]

\* the lists chess.moves may return: no move is listed twice
Positions ==
  UNION { { ms \in [1..n -> VerboseMoves] :
              \A i, j \in 1..n : i # j => Base(ms[i]) # Base(ms[j]) } :
          n \in 0..MaxMoves }

\* return null
NoMove == [from |-> "-", to |-> "-", promotion |-> "-"]

\* filterBadMoves(chess, moves): the moves that pass both checks, in order
filterBadMoves(moves) == SelectSeq(moves, LAMBDA m : m.safe)

\* a slip of the fallback: only the safe moves are ever evaluated
MovesToEvaluateNoFallback(moves) == filterBadMoves(moves)

\* a slip of the fallback: the filter is overridden whenever it removed a move
MovesToEvaluateAllOrAll(moves) ==
  IF Len(filterBadMoves(moves)) = Len(moves) THEN filterBadMoves(moves) ELSE moves

\* safeMoves.length > 0 ? safeMoves : moves
MovesToEvaluate(moves) ==
  IF Len(filterBadMoves(moves)) > 0 THEN filterBadMoves(moves) ELSE moves

evaluateMove(move) == move.score

\* the loop over movesToEvaluate from index i on: started is false while
\* bestScore is still -Infinity
RECURSIVE BestMoves(_, _, _, _, _)
BestMoves(moves, i, started, bestScore, bestMoves) ==
  IF i > Len(moves) THEN bestMoves
  ELSE LET score == evaluateMove(moves[i]) IN
    IF ~started \/ score > bestScore
      THEN BestMoves(moves, i + 1, TRUE, score, << moves[i] >>)
    ELSE IF score = bestScore
      THEN BestMoves(moves, i + 1, TRUE, bestScore, Append(bestMoves, moves[i]))
    ELSE BestMoves(moves, i + 1, TRUE, bestScore, bestMoves)

\* a slip of the pick: the first of the best moves is always taken
SelectedMovesFirstBest(moves) ==
  IF Len(moves) = 0 THEN {NoMove}
  ELSE LET best == BestMoves(MovesToEvaluate(moves), 1, FALSE, 0, << >>) IN
    IF best = << >> THEN {NoMove}
    ELSE { [from |-> best[1].from, to |-> best[1].to,
            promotion |-> IF best[1].promotion = "" THEN "q"
                          ELSE best[1].promotion] }

\* what getSmartMove may return for the listed moves: null, or from, to and
\* promotion of one of the best moves, 'q' standing in for no promotion
SelectedMoves(moves) ==
  IF Len(moves) = 0 THEN {NoMove}
  ELSE LET best == BestMoves(MovesToEvaluate(moves), 1, FALSE, 0, << >>) IN
    IF best = << >> THEN {NoMove}
    ELSE { [from |-> best[k].from, to |-> best[k].to,
            promotion |-> IF best[k].promotion = "" THEN "q"
                          ELSE best[k].promotion] : k \in 1..Len(best) }

InitAI ==
  /\ InitCommon
  /\ budget = 0
  /\ \E moves \in Positions :
       games = << [NewGame("u1", NoUser, TRUE, 0) EXCEPT !.fen = moves] >>

\* simpleAI.getSmartMove(game.fen)
AskSelector ==
  /\ \E selectedMove \in SelectedMoves(games[1].fen) :
       last' = [op |-> "getSmartMove", user |-> NoUser, gid |-> 1,
                code |-> selectedMove]
  /\ UNCHANGED <<games, users, reqs, now, budget, io>>

NextAI == AskSelector

SpecAI == InitAI /\ [][NextAI]_vars

(***************************************************************************)
(* SimpleAI.filterBadMoves, check by check                                 *)
(*                                                                         *)
(* The filter plays a candidate with chess.move(move) and questions the    *)
(* position after it.  Here a played candidate carries what that position  *)
(* holds about the landing square move.to: for each colour the pieces of   *)
(* that colour with a move to the square (were it that colour's turn), the *)
(* onward moves of the moved piece, and whether some reply is checkmate.   *)
(***************************************************************************)
\* pieceValues
pieceValues == [p |-> 100, n |-> 320, b |-> 330, r |-> 500, q |-> 900, k |-> 20000]

\* Infinity: above every piece value
Infinity == pieceValues["k"] + 1

\* the pieces of the positions looked at
PieceTypes == {"p", "n", "q"}

\* the candidates after chess.move(move). onward holds, for each onward move of
\* the moved piece, whether chess.isAttacked(move.to, opponent) holds after it
PlayedMoves ==
  { [piece |-> pc, color |-> c, reach |-> [white |-> w, black |-> b],
     onward |-> o, mateReply |-> mr] :
      pc \in PieceTypes, c \in Colors, w \in SUBSET PieceTypes,
      b \in SUBSET PieceTypes, o \in SUBSET BOOLEAN, mr \in BOOLEAN }

\* chess.turn() after chess.move(move): the side that did not move
TurnAfter(move) == Other(move.color)

\* chess.moves({square}): the rules engine lists moves for the pieces of the
\* side to move only
ChessMoves(turn, color, listed) == IF color = turn THEN listed ELSE {}

\* isSquareAttacked(chess, move.to): the piece on move.to is the moved piece
isSquareAttacked(move) ==
  LET attacks == ChessMoves(TurnAfter(move), move.color, move.onward)
  IN \E isAttacked \in attacks : isAttacked

\* getAttackers(chess, move.to): pieces of the colour chess.turn() is not
getAttackers(move) ==
  LET opponent == Other(TurnAfter(move))
  IN {t \in move.reach[opponent] :
        ChessMoves(TurnAfter(move), opponent, {t}) # {}}

RECURSIVE MinValue(_)
\* Math.min(...attackers.map(a => this.pieceValues[a.type]))
MinValue(attackers) ==
  LET a == CHOOSE t \in attackers : TRUE
      rest == attackers \ {a}
  IN IF rest = {} \/ pieceValues[a] < MinValue(rest) THEN pieceValues[a]
     ELSE MinValue(rest)

\* getLowestAttackerValue(chess, move.to)
getLowestAttackerValue(move) ==
  IF getAttackers(move) = {} THEN Infinity ELSE MinValue(getAttackers(move))

\* isSquareDefended(chess, move.to): pieces of the colour chess.turn() is
isSquareDefended(move) ==
  LET us == TurnAfter(move)
  IN \E t \in move.reach[us] : ChessMoves(TurnAfter(move), us, {t}) # {}

\* the verdict of filterBadMoves on one candidate: check 1 (hanging piece),
\* then check 2 (checkmate in one) when check 1 passed
isSafe(move) ==
  LET pieceValue == pieceValues[move.piece]
      attackerValue == getLowestAttackerValue(move)
      hangs == /\ isSquareAttacked(move)
               /\ attackerValue < pieceValue
               /\ ~isSquareDefended(move)
  IN IF hangs THEN FALSE ELSE ~move.mateReply

InitFilter ==
  /\ InitCommon
  /\ budget = 0
  /\ \E move \in PlayedMoves :
       games = << [NewGame("u1", NoUser, TRUE, 0) EXCEPT !.fen = << move >>] >>

\* this.filterBadMoves(chess, moves) on the candidate
FilterBadMoves ==
  /\ last' = [op |-> "filterBadMoves", user |-> NoUser, gid |-> 1,
              code |-> isSafe(games[1].fen[1])]
  /\ UNCHANGED <<games, users, reqs, now, budget, io>>

NextFilter == FilterBadMoves

SpecFilter == InitFilter /\ [][NextFilter]_vars

(***************************************************************************)
(* SimpleAI.evaluateMove, term by term                                     *)
(*                                                                         *)
(* A candidate carries what evaluateMove reads of it and of the position   *)
(* after chess.move(move).  The terms have the factors 0.5 and 0.3: scores *)
(* are counted in tenths of a point.                                       *)
(***************************************************************************)
\* chess.history().length after one chess.move on a Chess built from a FEN
moveNum == 1

\* chess.moves().length after the move, when the move is not checkmate
Mobilities == {1, 218}

\* this.positionBonus[piece][index] || 0, for a piece that has a table
Bonuses == {-50, 50}

\* what is told apart of a move by its piece: t for a bonus table, dev for a
\* knight that leaves its home rank, adv and passed for a pawn, castle for a king
ByPiece ==
  { [piece |-> "p", posBonus |-> t, dev |-> FALSE, adv |-> a, passed |-> ps,
     castle |-> FALSE] : t \in Bonuses, a \in BOOLEAN, ps \in BOOLEAN }
  \cup { [piece |-> "n", posBonus |-> t, dev |-> d, adv |-> FALSE,
          passed |-> FALSE, castle |-> FALSE] : t \in Bonuses, d \in BOOLEAN }
  \cup { [piece |-> "q", posBonus |-> 0, dev |-> FALSE, adv |-> FALSE,
          passed |-> FALSE, castle |-> FALSE] }
  \cup { [piece |-> "k", posBonus |-> 0, dev |-> FALSE, adv |-> FALSE,
          passed |-> FALSE, castle |-> c] : c \in BOOLEAN }

\* the candidates: captured is "" for no capture, gives is "mate", "check" or
\* "", to is "center", "near" or "far", kingCentral tells the file of the king
\* evaluateKingSafety finds; a checkmate leaves no reply
Candidates ==
  { [piece |-> bp.piece, posBonus |-> bp.posBonus, dev |-> bp.dev,
     adv |-> bp.adv, passed |-> bp.passed, castle |-> bp.castle,
     captured |-> cp, gives |-> g, to |-> sq, mobility |-> mob,
     kingCentral |-> kc] :
      bp \in ByPiece, cp \in {"", "p", "q"}, g \in {"mate", "check", ""},
      sq \in {"center", "far"}, mob \in Mobilities \cup {0}, kc \in BOOLEAN }

EvaluatedMoves ==
  {move \in Candidates :
     /\ move.gives = "mate" <=> move.mobility = 0
     /\ move.castle => move.captured = ""}

\* 1. material gain
CaptureTerm(move) ==
  IF move.captured = "" THEN 0
  ELSE LET captureValue == pieceValues[move.captured]
           pieceValue == pieceValues[move.piece]
       IN IF captureValue >= pieceValue THEN captureValue * 20
          ELSE captureValue * 5

\* a slip of the bonus: a checkmate counts as a check
CheckTermMateAsCheck(move) ==
  IF move.gives \in {"mate", "check"} THEN 800 ELSE 0

\* 2. check and checkmate
CheckTerm(move) ==
  IF move.gives = "mate" THEN 100000
  ELSE IF move.gives = "check" THEN 800
  ELSE 0

\* 3. to 9.: centre, development, early queen, castling, pawn advance, passed
\* pawn, mobility, king safety, position bonus
PositionalTerms(move) ==
    (IF moveNum < 15
       THEN IF move.to = "center" THEN 400
            ELSE IF move.to = "near" THEN 200 ELSE 0
       ELSE 0)
  + (IF moveNum < 10 /\ move.piece \in {"n", "b"} /\ move.dev THEN 350 ELSE 0)
  + (IF moveNum < 10 /\ move.piece = "q" /\ moveNum < 8 THEN 0 - 400 ELSE 0)
  + (IF move.castle THEN 600 ELSE 0)
  + (IF move.piece = "p" /\ move.adv THEN 150 ELSE 0)
  + (IF move.piece = "p" /\ move.passed THEN 300 ELSE 0)
  + move.mobility * 5
  + (IF moveNum > 10 /\ move.kingCentral THEN 0 - 200 ELSE 0)
  + move.posBonus * 3

\* evaluateMove(chess, move), in tenths
ScoreTenths(move) == CaptureTerm(move) + CheckTerm(move) + PositionalTerms(move)

InitEval ==
  /\ InitCommon
  /\ budget = 0
  /\ \E a \in EvaluatedMoves, b \in EvaluatedMoves :
       /\ a.gives = "mate" \/ a.captured # ""
       /\ b.gives # "mate"
       /\ games = << [NewGame("u1", NoUser, TRUE, 0) EXCEPT !.fen = << a, b >>] >>

\* const score = this.evaluateMove(chess, move), for the moves of the position
EvaluateMoves ==
  /\ last' = [op |-> "evaluateMove", user |-> NoUser, gid |-> 1,
              code |-> [i \in 1..Len(games[1].fen) |-> ScoreTenths(games[1].fen[i])]]
  /\ UNCHANGED <<games, users, reqs, now, budget, io>>

NextEval == EvaluateMoves

SpecEval == InitEval /\ [][NextEval]_vars

(***************************************************************************)
(* Properties                                                              *)
(***************************************************************************)
Terminal(g) == g.status \in {"completed", "abandoned"}

Participants(g) == {g.white, g.black} \ {NoUser}

ColorOf(g, u) == IF g.white = u THEN "white" ELSE "black"

WinFor(c) == IF c = "white" THEN "1-0" ELSE "0-1"

ActiveMatchesOf(u) ==
  {i \in 1..Len(games) : games[i].status = "active" /\ u \in Participants(games[i])}

MatchesOf(u) == {i \in 1..Len(games) : u \in Participants(games[i])}

\* the handler in slot r takes this step
Steps(r) == reqs[r].pc # "idle" /\ reqs'[r] # reqs[r]

\* C1: busy guard: no user occupies a slot in more than one active match,
\* whatever the interleaving of the creation requests.
BusyGuard == \A u \in Users : Cardinality(ActiveMatchesOf(u)) <= 1

\* C2: currentTurn toggles exactly once for each ply appended to moves and
\* changes in no other step.
TurnAlternates ==
  [][\A i \in 1..Len(games) :
       /\ Len(games'[i].moves) = Len(games[i].moves) + 1
            => games'[i].currentTurn = Other(games[i].currentTurn)
       /\ games'[i].moves = games[i].moves
            => games'[i].currentTurn = games[i].currentTurn]_vars

\* C3: terminal states are absorbing: once the stored status is completed or
\* abandoned, no step changes the stored match.
TerminalAbsorbing ==
  [][\A i \in 1..Len(games) : Terminal(games[i]) => games'[i] = games[i]]_vars

\* C4: per-match serialization of the foreground transitions and the monitor.
\* In every serial execution a forced timeout is the last transition of its
\* match, so a match that carries abandonedBy is completed, was forfeited by
\* the side to move, and is won by the participant of the other slot.
SerialForfeiture ==
  \A i \in 1..Len(games) :
    LET g == games[i] IN
      g.abandonedBy # "null" =>
        /\ g.status = "completed"
        /\ g.abandonedBy = g.currentTurn
        /\ g.result = WinFor(Other(g.abandonedBy))
        /\ g.winner = Player(g, Other(g.abandonedBy))

\* C5: the forced timeout is persisted only on a match that is still active
\* and has had no ply for 90 seconds at that moment.
ForfeitOnlyWhenDue ==
  [][\A r \in Reqs :
       (reqs[r].pc = "sw_save" /\ Steps(r)) =>
         LET g == games[reqs[r].doc.id] IN
           /\ g.status = "active"
           /\ (now - g.lastMoveTime) * TickMs >= TIMEOUT_DURATION]_vars

\* C6: the rating update of a human match is applied by exactly one terminal
\* transition: no participant's gamesPlayed exceeds the number of matches the
\* participant has played in.
RatedOnce ==
  \A u \in Users : users[u].gamesPlayed <= Cardinality(MatchesOf(u))

\* C7: a submit-ply, resign or abort request of a user who occupies neither
\* slot of the match is rejected, and no step of its handler changes a match
\* or a rating record.
OutsiderChangesNothing ==
  [][\A r \in Reqs :
       (/\ Steps(r)
        /\ reqs[r].op \in {"makeMove", "makeBotMove", "resign", "abort"}
        /\ reqs[r].user \notin Participants(games[reqs[r].doc.id]))
       => (games' = games /\ users' = users /\ last'.code # "ok")]_vars

\* C8: a submit-ply request of a participant is accepted only when the
\* participant's slot is currentTurn (otherwise it is answered 'Not your turn').
OnlyOnTurn ==
  [][\A r \in Reqs :
       (/\ reqs[r].pc = "idle"
        /\ reqs'[r].pc # "idle"
        /\ reqs'[r].op \in {"makeMove", "makeBotMove"}
        /\ reqs'[r].user \in Participants(games[reqs'[r].doc.id]))
       => games[reqs'[r].doc.id].currentTurn
            = ColorOf(games[reqs'[r].doc.id], reqs'[r].user)]_vars

\* the slot that made the ply the handler in slot r is about to save: the
\* human's slot for the human's ply, the empty slot for the bot's reply
MoverSlot(r) ==
  LET g == reqs[r].doc.g IN
    IF reqs[r].pc = "mb_reply_save" THEN (IF g.white = NoUser THEN "white" ELSE "black")
    ELSE ColorOf(g, reqs[r].user)

\* C9: an accepted ply that delivers checkmate completes the match with
\* result = win for the slot that made the ply and endedAt set, and with
\* winner = the acting participant when a human made the ply.
MateWinsForMover ==
  [][\A r \in Reqs :
       (/\ Steps(r)
        /\ reqs[r].pc \in {"mm_save", "mb_end", "mb_reply_save"}
        /\ IsCheckmate(reqs[r].doc.g.fen)
        /\ reqs[r].user \in Participants(reqs[r].doc.g))
       => LET g == games'[reqs[r].doc.id] IN
            /\ g.status = "completed"
            /\ g.result = WinFor(MoverSlot(r))
            /\ g.endedAt # NoDate
            /\ reqs[r].pc # "mb_reply_save" => g.winner = reqs[r].user]_vars

\* C10: abort on an existing match is accepted exactly when the match it
\* reads is active with fewer than 2 plies; a rejected abort changes nothing;
\* an accepted abort writes status = abandoned and endedAt and leaves result
\* ('ongoing'), winner (null), moves and every rating record as they were.
AbortContract ==
  [][\A r \in Reqs :
       /\ (reqs[r].pc = "idle" /\ reqs'[r].pc = "ab_save") =>
            LET g == games[reqs'[r].doc.id] IN
              g.status = "active" /\ Len(g.moves) < 2
       /\ (budget' < budget /\ last'.op = "abort" /\ Exists(last'.gid)) =>
            LET g == games[last'.gid] IN
              /\ ~(g.status = "active" /\ Len(g.moves) < 2)
              /\ (g.status = "active" => last'.code = "too_late")
              /\ games' = games /\ users' = users
       /\ (reqs[r].pc = "ab_save" /\ Steps(r)) =>
            LET i == reqs[r].doc.id IN
              /\ last'.code = "ok"
              /\ games'[i].status = "abandoned"
              /\ games'[i].endedAt # NoDate
              /\ games'[i].result = games[i].result
              /\ games'[i].winner = games[i].winner
              /\ games'[i].moves = games[i].moves
              /\ reqs[r].doc.g.result = "ongoing"
              /\ reqs[r].doc.g.winner = NoUser
              /\ users' = users]_vars

\* C10 witness: an abort has just succeeded on a match with one ply
AbortedAfterOnePly ==
  /\ last.op = "abort" /\ last.code = "ok"
  /\ games[1].status = "abandoned"
  /\ games[1].result = "ongoing"
  /\ Len(games[1].moves) = 1

\* C11: resign by a participant of a match it reads as active is never
\* rejected, whatever the ply count and the turn; its save stores status =
\* completed, result = win for the other slot and endedAt, and in a human
\* match winner = the other participant; both ratings are set from
\* updateRatings(whiteRating, blackRating, result) of the ratings read, with
\* losses incremented for the resigning side and wins for the other.
ResignContract ==
  [][\A r \in Reqs :
       /\ (/\ budget' < budget /\ last'.op = "resign" /\ Exists(last'.gid)
           /\ last'.user \in Participants(games[last'.gid]))
          => games[last'.gid].status # "active"
       /\ (/\ Steps(r) /\ reqs[r].pc \in {"rs_save", "rs_bot_save"}
           /\ reqs[r].user \in Participants(reqs[r].doc.g))
          => LET g == games'[reqs[r].doc.id]
                 loser == ColorOf(reqs[r].doc.g, reqs[r].user)
             IN /\ g.status = "completed"
                /\ g.result = WinFor(Other(loser))
                /\ g.endedAt # NoDate
                /\ ~g.isBot => g.winner = Player(g, Other(loser))
                /\ reqs[r].pc = "rs_save" => last'.code = "ok"
       /\ (/\ Steps(r) /\ reqs[r].pc \in {"rs_white", "rs_black"}
           /\ reqs[r].user \in Participants(reqs[r].doc.g))
          => LET d == reqs[r].doc
                 loser == ColorOf(d.g, reqs[r].user)
                 c == IF reqs[r].pc = "rs_white" THEN "white" ELSE "black"
                 p == Player(d.g, c)
                 rc == updateRatings(d.wr, d.br, WinFor(Other(loser)))
             IN /\ users'[p].rating = IF c = "white" THEN rc.whiteRating
                                      ELSE rc.blackRating
                /\ users'[p].losses = users[p].losses + (IF c = loser THEN 1 ELSE 0)
                /\ users'[p].wins = users[p].wins + (IF c = loser THEN 0 ELSE 1)
                /\ users'[p].gamesPlayed = users[p].gamesPlayed + 1
                /\ \A q \in Users \ {p} : users'[q] = users[q]]_vars

\* C11 witness: black has just resigned after two plies, with white to move
ResignedOffTurnAfterTwoPlies ==
  /\ last.op = "resign" /\ last.code = "ok" /\ last.user = "u2"
  /\ Len(games[1].moves) = 2
  /\ games[1].currentTurn = "white"
  /\ games[1].result = "1-0" /\ games[1].winner = "u1"
  /\ users["u2"].losses = 1 /\ users["u1"].wins = 1


\* C12: the forced timeout of a human match read with currentTurn = s stores
\* status = completed, result = win for the other slot, winner = the
\* participant of the other slot, abandonedBy = s and endedAt; the winner's
\* rating becomes the ELO result of the win and the forfeiting participant's
\* rating becomes max(100, ELO result of the loss - 10), never below 100.
ForfeitContract ==
  [][\A r \in Reqs :
       /\ (Steps(r) /\ reqs[r].pc = "sw_save")
          => LET g == games'[reqs[r].doc.id]
                 s == reqs[r].doc.g.currentTurn
             IN /\ g.status = "completed"
                /\ g.result = WinFor(Other(s))
                /\ g.winner = Player(g, Other(s))
                /\ g.abandonedBy = s
                /\ g.endedAt # NoDate
       /\ (Steps(r) /\ reqs[r].pc = "sw_winner")
          => LET d == reqs[r].doc
                 s == d.g.currentTurn
                 p == Player(d.g, Other(s))
                 rc == updateRatings(d.wr, d.br, WinFor(Other(s)))
             IN /\ users'[p].rating = IF s = "white" THEN rc.blackRating
                                      ELSE rc.whiteRating
                /\ users'[p].wins = users[p].wins + 1
                /\ \A q \in Users \ {p} : users'[q] = users[q]
       /\ (Steps(r) /\ reqs[r].pc = "sw_loser")
          => LET d == reqs[r].doc
                 s == d.g.currentTurn
                 p == Player(d.g, s)
                 rc == updateRatings(d.wr, d.br, WinFor(Other(s)))
                 lost == IF s = "white" THEN rc.whiteRating ELSE rc.blackRating
             IN /\ users'[p].rating = IF lost - 10 >= 100 THEN lost - 10 ELSE 100
                /\ users'[p].rating >= 100
                /\ users'[p].losses = users[p].losses + 1
                /\ \A q \in Users \ {p} : users'[q] = users[q]]_vars

\* C12 witness: white, rated below 110, has forfeited and sits on the floor
ForfeitedAtTheFloor ==
  /\ games[1].status = "completed" /\ games[1].abandonedBy = "white"
  /\ games[1].result = "0-1" /\ games[1].winner = "u2"
  /\ users["u1"].rating = 100 /\ users["u1"].losses = 1
  /\ users["u2"].wins = 1


\* C13: one warning per inactivity episode: the monitor emits a warning only
\* for the side to move of a match that has been idle for 60 seconds and has
\* not been warned since its last accepted ply.
WarnedOncePerEpisode ==
  [][\A r \in Reqs :
       (Steps(r) /\ reqs[r].pc = "sw_warn")
       => LET g == games[reqs[r].doc.id]
              currentPlayer == reqs[r].doc.g.currentTurn
          IN /\ g.currentTurn = currentPlayer
             /\ (now - g.lastMoveTime) * TickMs >= WARNING_TIME
             /\ ~g.timeoutWarnings[currentPlayer]]_vars


\* the match is active and its last accepted ply is 90 seconds old
Due(i) ==
  /\ games[i].status = "active" /\ ~games[i].isBot
  /\ (now - games[i].lastMoveTime) * TickMs >= 90000

Forfeited(i) ==
  games[i].status = "completed" /\ games[i].abandonedBy # "null"

BotMatchUntouched ==
  /\ \A r \in Reqs : reqs[r].op # "sweep"
  /\ \A i \in 1..Len(games) :
       games[i].isBot =>
         /\ games[i].abandonedBy = "null"
         /\ ~games[i].timeoutWarnings.white
         /\ ~games[i].timeoutWarnings.black

\* C15 witness: a sweep has gone over a bot match that has been idle for 90
\* seconds, and the match is as it was created
IdleBotMatchSwept ==
  /\ games[1].isBot /\ games[1].status = "active" /\ games[1].moves = << >>
  /\ (now - games[1].lastMoveTime) * TickMs >= 90000
  /\ budget = 0 /\ reqs = [r \in Reqs |-> Idle] /\ last = NoResponse
  /\ users = [u \in Users |-> NewUser]


\* the record old after {$inc: {wins: w, losses: l, draws: d, gamesPlayed: 1,
\* rating: delta}}
Bumped(old, w, l, d, delta) ==
  [rating |-> old.rating + delta, wins |-> old.wins + w,
   losses |-> old.losses + l, draws |-> old.draws + d,
   gamesPlayed |-> old.gamesPlayed + 1]

\* C16: in a bot match a rating record changes only by the fixed deltas, and
\* only the requester's: +10 with wins+1 when the human mates, -10 with
\* losses+1 when the bot mates, 0 with draws+1 on a draw, -5 with losses+1 on
\* resign.
BotFixedDeltas ==
  [][users' # users =>
       \E r \in Reqs :
         LET u == reqs[r].user
             fen == reqs[r].doc.g.fen
         IN /\ Steps(r)
            /\ reqs[r].doc.g.isBot
            /\ \A q \in Users \ {u} : users'[q] = users[q]
            /\ \/ /\ reqs[r].pc = "mb_user" /\ IsCheckmate(fen)
                  /\ users'[u] = Bumped(users[u], 1, 0, 0, 10)
               \/ /\ reqs[r].pc = "mb_reply_user" /\ IsCheckmate(fen)
                  /\ users'[u] = Bumped(users[u], 0, 1, 0, -10)
               \/ /\ reqs[r].pc \in {"mb_user", "mb_reply_user"} /\ IsDraw(fen)
                  /\ users'[u] = Bumped(users[u], 0, 0, 1, 0)
               \/ /\ reqs[r].pc = "rs_bot_user"
                  /\ users'[u] = Bumped(users[u], 0, 1, 0, -5)]_vars

\* C16 witness: the human, rated 1200, has mated the bot and is rated 1210
HumanMatedBotFor1210 ==
  /\ games[1].isBot /\ games[1].status = "completed"
  /\ games[1].winner = "u1" /\ IsCheckmate(games[1].fen)
  /\ users["u1"].rating = 1210 /\ users["u1"].wins = 1
  /\ users["u1"].gamesPlayed = 1


\* C17: updateRatings on equal ratings r gives (r, r) for a draw, (r + 16,
\* r - 16) for a white win and (r - 16, r + 16) for a black win, so (1216,
\* 1184) for a white win at 1200; computing it changes no stored record.
EqualRatingsMoveBySixteen ==
  [][\A r \in Reqs :
       (reqs[r].pc = "idle" /\ reqs'[r].pc \in {"mm_white", "rs_white"})
       => LET d == reqs'[r].doc
              res == d.g.result
              gain == IF res = "1-0" THEN 16 ELSE IF res = "0-1" THEN -16 ELSE 0
          IN /\ games' = games /\ users' = users
             /\ d.wr = d.br =>
                  reqs'[r].rc = [whiteRating |-> d.wr + gain,
                                 blackRating |-> d.br - gain]
             /\ (d.wr = 1200 /\ d.br = 1200 /\ res = "1-0") =>
                  reqs'[r].rc = [whiteRating |-> 1216, blackRating |-> 1184]
             /\ (d.wr = 1200 /\ d.br = 1200 /\ res = "1/2-1/2") =>
                  reqs'[r].rc = [whiteRating |-> 1200, blackRating |-> 1200]]_vars

\* C17 witness: a black win between two participants rated 1400 has been
\* rated 1384 to 1416
BlackWinRatedAt1400 ==
  \E r \in Reqs :
    /\ reqs[r].pc \in {"mm_white", "rs_white"}
    /\ reqs[r].doc.wr = 1400 /\ reqs[r].doc.br = 1400
    /\ reqs[r].doc.g.result = "0-1"
    /\ reqs[r].rc = [whiteRating |-> 1384, blackRating |-> 1416]


\* C18: atomicity under store failure: once every handler has ended, a match
\* that is still stored as active has left no trace in a rating record, and
\* the two participants of a match have been updated together.
AllOrNothing ==
  (\A r \in Reqs : reqs[r].pc = "idle") =>
    /\ games[1].status = "active" =>
         (users["u1"] = NewUser /\ users["u2"] = NewUser)
    /\ users["u1"].gamesPlayed = users["u2"].gamesPlayed


\* the responses that reject a request
RejectCodes ==
  {"not_found", "not_active", "not_your_turn", "invalid_move", "too_late",
   "invalid_bot_game", "opponent_not_found", "self_play", "USER_BUSY",
   "OPPONENT_BUSY"}

\* C19: a rejected request leaves every match record and every rating record
\* as it was: the step that rejects writes nothing, and so do the reads that
\* precede a rejection of createGame.
RejectionsChangeNothing ==
  [][/\ last'.code \in RejectCodes => (games' = games /\ users' = users)
     /\ \A r \in Reqs :
          (Steps(r) /\ reqs[r].pc \in {"cg_user", "cg_opponent"})
          => (games' = games /\ users' = users)]_vars

\* C19 witness: an abort has just been rejected on an active match of 2 plies
AbortRejectedAfterTwoPlies ==
  /\ last.op = "abort" /\ last.code = "too_late"
  /\ games[1].status = "active" /\ Len(games[1].moves) = 2
  /\ games[1].endedAt = NoDate


\* C20: getSmartMove returns null exactly when the position has no legal
\* move, and otherwise a move whose from and to are those of a legal move of
\* the position.
SelectorReturnsLegalMove ==
  last.op = "getSmartMove" =>
    LET moves == games[1].fen IN
      /\ last.code = NoMove <=> Len(moves) = 0
      /\ Len(moves) > 0 =>
           \E i \in 1..Len(moves) :
             moves[i].from = last.code.from /\ moves[i].to = last.code.to

\* C20 witness: a move has been returned for a position of three legal moves
\* none of which passes the filter
MoveReturnedThoughNoneIsSafe ==
  /\ last.op = "getSmartMove" /\ last.code # NoMove
  /\ Len(games[1].fen) = 3
  /\ \A i \in 1..3 : ~games[1].fen[i].safe

\* C22: every match is created active, with white to move, no plies and the
\* standard start position; a human match fills both slots with two distinct
\* users, a bot match leaves exactly one slot empty and gives the other to its
\* initiator; the slots and isBot of a stored match never change.
CreatedWellFormed ==
  [][/\ Len(games') >= Len(games)
     /\ \A i \in 1..Len(games) :
          /\ games'[i].white = games[i].white
          /\ games'[i].black = games[i].black
          /\ games'[i].isBot = games[i].isBot
     /\ Len(games') > Len(games) =>
          LET g == games'[Len(games')] IN
            /\ Len(games') = Len(games) + 1
            /\ g.status = "active"
            /\ g.currentTurn = "white"
            /\ g.moves = << >>
            /\ g.fen = StartFen
            /\ IF g.isBot
                 THEN \E r \in Reqs :
                        /\ Steps(r)
                        /\ reqs[r].op = "createBotGame"
                        /\ \/ g.white = reqs[r].user /\ g.black = NoUser
                           \/ g.white = NoUser /\ g.black = reqs[r].user
               ELSE /\ g.white \in Users
                    /\ g.black \in Users
                    /\ g.white # g.black]_vars

\* the handler in slot r waits out the bot's thinking time
InDelay(r) == reqs[r].pc \in {"mb_think", "cb_wait"}

\* C23: the bot's thinking delay blocks nothing: while a makeBotMove or
\* createBotGame handler waits, a ply, a resignation, an abort on the other
\* match and the sweep can start, and every handler in flight can take its
\* next step, up to its end.
DelayBlocksNothing ==
  \A r \in Reqs : InDelay(r) =>
    \A r2 \in Reqs \ {r} :
      /\ reqs[r2].pc = "idle" /\ budget > 0 =>
            /\ ENABLED CheckTimeouts(r2)
            /\ \A u \in {"u1", "u2"} :
                 /\ ENABLED (\E mv \in MoveInputs : MakeMove(r2, u, 1, mv))
                 /\ ENABLED AbortGame(r2, u, 1)
                 /\ ENABLED ResignGame(r2, u, 1)
      /\ reqs[r2].pc # "idle" => ENABLED Continue(r2)

\* an abort of the human match ends while the bot of the other match thinks
AbortedWhileBotThinks ==
  /\ \E r \in Reqs : reqs[r].pc = "mb_think" /\ reqs[r].doc.id = 2
  /\ last.op = "abort" /\ last.code = "ok" /\ last.gid = 1
  /\ games[1].status = "abandoned"

\* C24: the push channel is advisory: a step of a socket event handler
\* (game:join, game:move, game:leave, chat:typing, disconnect), whatever move
\* the event names and whichever sockets its broadcast reaches, changes no
\* match and no rating record.
PushChannelAdvisory ==
  [][reqs' = reqs => games' = games /\ users' = users]_vars

\* a game:move event of the player on turn is broadcast to the room and the
\* match still has no ply
MoveEventBroadcastOnly ==
  /\ last.op = "game:move-made"
  /\ last.gid = 1
  /\ last.code # {}
  /\ games[1].moves = << >>
  /\ games[1].currentTurn = "white"

\* C25: once an accepted ply of a human match is persisted and the mover's
\* client has notified over its socket, game:move-made is eventually
\* broadcast to the room of the match, unless the socket disconnects first.
PlyIsPushed ==
  \A s \in Sockets, gid \in GameIds :
    (io.sockets[s].inbox.notifies /\ io.sockets[s].inbox.gameId = gid)
      ~> \/ last.op = "game:move-made" /\ last.gid = gid
         \/ ~io.sockets[s].connected

\* C26: a match is shown to its participants only: getGame answers anyone
\* else with 403, and game:join lets a socket into the room and sends it
\* game:state only when its user occupies a slot, in human and bot matches.
ParticipantsOnly ==
  /\ last.op = "getGame" /\ Exists(last.gid) =>
        (last.code = "ok") = (last.user \in Participants(games[last.gid]))
  /\ last.op = "game:state" => last.user \in Participants(games[last.gid])
  /\ \A s \in Sockets : \A gid \in io.sockets[s].rooms :
        io.sockets[s].userId \in Participants(games[gid])

\* the match of document d needs a warning or a forfeit from a sweep at time t
NeedsSweep(d, t) == ~d.g.isBot /\ (shouldWarn(d.g, t) \/ shouldTimeout(d.g, t))

\* C27: a failure on one match is not fatal to the sweep: when sendWarning or
\* handleTimeout fails, the error is logged, the same sweep goes on to the next
\* match of its list that needs a warning or a forfeit, and the timer can
\* start a later sweep as soon as a slot is free.
SweepSurvivesFailure ==
  /\ [][\A r \in Reqs :
         (reqs[r].op = "sweep" /\ Steps(r) /\ last'.code = "error") =>
           LET rest == reqs[r].queue
               due == {k \in 1..Len(rest) : NeedsSweep(rest[k], now)}
           IN /\ last'.op = "sweep" /\ last'.gid = reqs[r].doc.id
              /\ due # {} /\ ~(reqs[r].pc = "sw_warn"
                                /\ shouldTimeout(reqs[r].doc.g, now)) =>
                    /\ reqs'[r].op = "sweep"
                    /\ \E k \in due :
                         /\ \A j \in due : k <= j
                         /\ reqs'[r].doc.id = rest[k].id
                         /\ reqs'[r].queue = SubSeq(rest, k + 1, Len(rest))]_vars
  /\ [](\A r \in Reqs : reqs[r].pc = "idle" /\ budget > 0 =>
          ENABLED (\E q \in Reqs : CheckTimeouts(q)))

\* the sweep whose forfeit of match 1 has just failed is forfeiting match 2
SweepGoesOnAfterFailure ==
  /\ last = [op |-> "sweep", user |-> NoUser, gid |-> 1, code |-> "error"]
  /\ games[1].status = "active"
  /\ \E r \in Reqs : reqs[r].pc = "sw_winner" /\ reqs[r].doc.id = 2

\* the responses that reject a creation
CreationRejectCodes == {"opponent_not_found", "self_play", "USER_BUSY", "OPPONENT_BUSY"}

\* C28: createGame goes past its first tests only with an opponent that
\* resolves to a user other than the initiator, answers USER_BUSY when the
\* initiator is in an active match and OPPONENT_BUSY when only the opponent
\* is; createBotGame answers USER_BUSY when the initiator is in an active
\* match; a rejected creation stores no match.
CreationRejections ==
  /\ [](\A r \in Reqs : reqs[r].op = "createGame" =>
          /\ CastObjectId(reqs[r].uc) \in DOMAIN users
          /\ CastObjectId(reqs[r].uc) # reqs[r].user)
  /\ [][\A r \in Reqs :
         /\ reqs[r].pc = "cg_user" /\ Steps(r) /\ isUserBusy(games, reqs[r].user)
              => last'.code = "USER_BUSY" /\ reqs'[r] = Idle
         /\ reqs[r].pc = "cg_opponent" /\ Steps(r)
               /\ isUserBusy(games, CastObjectId(reqs[r].uc))
              => last'.code = "OPPONENT_BUSY" /\ reqs'[r] = Idle
         /\ reqs[r].pc = "idle" /\ reqs'[r].op = "createBotGame"
              => ~isUserBusy(games, reqs'[r].user)
         /\ last'.code \in CreationRejectCodes => games' = games]_vars

Returned(r) ==
  IF reqs[r].pc = "cb_create_white" THEN games'[last'.gid] ELSE reqs[r].doc.g

\* C30: when the bot has white, createBotGame applies exactly one opening ply
\* before it responds: the match it returns has one ply, black to move and
\* lastMoveTime set by the opening; no match is returned with the turn on the
\* empty slot.
OpeningBeforeResponse ==
  [][\A r \in Reqs :
       (reqs[r].op = "createBotGame" /\ Steps(r) /\ last'.code = "created") =>
         /\ Player(Returned(r), Returned(r).currentTurn) # NoUser
         /\ Returned(r).white = NoUser =>
              /\ Len(Returned(r).moves) = 1
              /\ Returned(r).currentTurn = "black"
              /\ Returned(r).fen # StartFen
              /\ "lastMoveTime" \in reqs[r].doc.mod
              /\ Returned(r).lastMoveTime <= now]_vars

\* createBotGame has answered with match 2, in which the bot has white and
\* has played its opening ply
BotOpenedAsWhite ==
  /\ last.op = "createBotGame" /\ last.code = "created" /\ last.gid = 2
  /\ games[2].white = NoUser
  /\ Len(games[2].moves) = 1
  /\ games[2].currentTurn = "black"

\* C31: bounded bot reply: a makeBotMove handler appends one ply with each of
\* its saves, the human's and then at most one reply of the bot; when it
\* answers with the match still active, the stored match has grown by the two
\* plies and the turn is back on the human's slot.
BoundedBotReply ==
  [][\A r \in Reqs :
       (reqs[r].op = "makeBotMove" /\ Steps(r)) =>
         LET id == reqs[r].doc.id IN
           /\ games' # games =>
                /\ Len(reqs[r].doc.pushed) = 1
                /\ games'[id].moves = games[id].moves \o reqs[r].doc.pushed
           /\ (reqs[r].pc = "mb_reply_save" /\ games'[id].status = "active") =>
                /\ Len(games'[id].moves) >= 2
                /\ Player(games'[id], games'[id].currentTurn) # NoUser]_vars

\* the handler in slot r saves an accepted ply in this step
SavesPly(r) ==
  /\ Steps(r)
  /\ reqs[r].pc \in {"mm_save", "mb_save", "mb_end", "mb_reply_save"}
  /\ reqs[r].doc.pushed # << >>
  /\ games' # games

\* C32: every accepted ply is persisted with lastMoveTime set by that ply and
\* both warning flags false, and a warning flag of a match is true only when
\* the match has been idle for 60 seconds since its last persisted ply.
PlyResetsWarnings ==
  /\ [][\A r \in Reqs :
         SavesPly(r) =>
           LET g == games'[reqs[r].doc.id] IN
             /\ g.lastMoveTime = reqs[r].doc.g.lastMoveTime
             /\ g.lastMoveTime <= now
             /\ ~g.timeoutWarnings.white
             /\ ~g.timeoutWarnings.black]_vars
  /\ [](\A i \in 1..Len(games) : \A c \in Colors :
          games[i].timeoutWarnings[c] =>
            (now - games[i].lastMoveTime) * TickMs >= WARNING_TIME)


\* the steps of abortGame, resignGame and the monitor's sweep
QuietPcs == {"ab_save", "rs_bot_save", "rs_bot_user", "rs_white", "rs_black",
             "rs_save", "sw_warn", "sw_winner", "sw_loser", "sw_save"}

\* C33: moves is append-only: in every step the stored moves of a match keep
\* their previous content as a prefix, a save of an accepted ply appends exactly
\* that one notation, and the steps of resign, abort, warning and forced
\* timeout leave moves unchanged.
MovesAppendOnly ==
  [][\A i \in 1..Len(games) :
       LET old == games[i].moves
           new == games'[i].moves
       IN /\ Len(new) \in {Len(old), Len(old) + 1}
          /\ SubSeq(new, 1, Len(old)) = old
          /\ \A r \in Reqs :
               /\ (Steps(r) /\ reqs[r].pc \in QuietPcs) => new = old
               /\ (Steps(r) /\ reqs[r].doc # NoDoc /\ reqs[r].doc.id = i
                     /\ reqs[r].doc.pushed # << >> /\ games' # games) =>
                    /\ Len(reqs[r].doc.pushed) = 1
                    /\ new = Append(old, reqs[r].doc.pushed[1])]_vars

\* two overlapping requests on the match of u1 and u2 have each appended their
\* ply: the second save kept the ply of the first, which its document never read
OverlappingPliesBothKept ==
  /\ Len(games[1].moves) = 2
  /\ Len(games[1].fen) = 1


\* C34: every update of a user's record increments gamesPlayed by exactly 1
\* and exactly one of wins, losses and draws by exactly 1 and decrements no
\* counter, so that gamesPlayed = wins + losses + draws in every reachable state.
CountersAddUp ==
  /\ [](\A u \in DOMAIN users :
          users[u].gamesPlayed = users[u].wins + users[u].losses + users[u].draws)
  /\ [][\A u \in DOMAIN users :
          users'[u] # users[u] =>
            /\ users'[u].gamesPlayed = users[u].gamesPlayed + 1
            /\ users'[u].wins >= users[u].wins
            /\ users'[u].losses >= users[u].losses
            /\ users'[u].draws >= users[u].draws
            /\ (users'[u].wins - users[u].wins)
                 + (users'[u].losses - users[u].losses)
                 + (users'[u].draws - users[u].draws) = 1]_vars

\* a user's record has been updated by two handlers, once with a win and once
\* with another outcome
UpdatedTwice ==
  \E u \in DOMAIN users :
    /\ users[u].gamesPlayed = 2
    /\ users[u].wins = 1


\* what getSmartMove returns for the move it selected
AsReturned(m) ==
  [from |-> m.from, to |-> m.to,
   promotion |-> IF m.promotion = "" THEN "q" ELSE m.promotion]

\* the evaluated moves no evaluated move scores higher than
TopScored(evaluated) ==
  {i \in 1..Len(evaluated) :
     \A j \in 1..Len(evaluated) :
       evaluateMove(evaluated[j]) <= evaluateMove(evaluated[i])}

\* C35: getSmartMove returns a candidate whose evaluateMove score is maximal
\* among the evaluated candidates, and every candidate tied for that maximum is
\* a possible return value.
SelectorReturnsBest ==
  (last.op = "getSmartMove" /\ last.code # NoMove) =>
    LET evaluated == MovesToEvaluate(games[1].fen) IN
      /\ \E i \in TopScored(evaluated) : last.code = AsReturned(evaluated[i])
      /\ \A i \in TopScored(evaluated) :
           ENABLED (AskSelector /\ last'.code = AsReturned(evaluated[i]))

\* of three evaluated moves the first and the last tie for the highest score,
\* and the last has been returned
LaterOfTiedReturned ==
  /\ last.op = "getSmartMove"
  /\ Len(games[1].fen) = 3
  /\ \A i \in 1..3 : games[1].fen[i].safe
  /\ games[1].fen[1].score = 2 /\ games[1].fen[2].score = 1
  /\ games[1].fen[3].score = 2
  /\ last.code = AsReturned(games[1].fen[3])


\* the listed moves that pass the filter
PassFilter(moves) == {i \in 1..Len(moves) : moves[i].safe}

\* C36: filter fallback: the scored candidates are the moves that pass the
\* safety filter when there is one and all legal moves when the filter removed
\* every candidate; a filtered-out candidate is returned only in the latter
\* case, and null is never returned merely because all moves were filtered.
FilterFallback ==
  last.op = "getSmartMove" =>
    LET moves == games[1].fen
        scored == MovesToEvaluate(moves)
    IN /\ PassFilter(moves) # {} =>
            scored = SelectSeq(moves, LAMBDA m : m.safe)
       /\ PassFilter(moves) = {} => scored = moves
       /\ (\E i \in 1..Len(moves) :
             ~moves[i].safe /\ last.code = AsReturned(moves[i]))
            => PassFilter(moves) = {}
       /\ (Len(moves) > 0 /\ PassFilter(moves) = {}) => last.code # NoMove

\* the only move that scores highest does not pass the filter, another move
\* does, and that one has been returned
SafeMovePreferredToBest ==
  /\ last.op = "getSmartMove"
  /\ Len(games[1].fen) = 2
  /\ ~games[1].fen[1].safe /\ games[1].fen[1].score = 2
  /\ games[1].fen[2].safe /\ games[1].fen[2].score = 0
  /\ last.code = AsReturned(games[1].fen[2])


\* the opposing pieces that attack the landing square of a played candidate
AttackersOf(move) == move.reach[Other(move.color)]

\* a friendly piece defends the landing square of a played candidate
DefendedBy(move) == move.reach[move.color] # {}

\* C37: the safety filter discards every candidate whose moved piece lands on
\* a square attacked by an opposing piece of lower or equal value while no
\* friendly piece defends the square, and keeps a candidate whose landing
\* square is defended or attacked only by more valuable pieces unless it allows
\* mate in one.
HangingPieceFiltered ==
  last.op = "filterBadMoves" =>
    LET move == games[1].fen[1]
        hangs == /\ \E t \in AttackersOf(move) :
                      pieceValues[t] <= pieceValues[move.piece]
                 /\ ~DefendedBy(move)
    IN /\ hangs => ~last.code
       /\ (~hangs /\ ~move.mateReply) => last.code


\* C38: score dominance: a candidate that delivers checkmate or captures a
\* piece scores strictly higher than a candidate that does neither, whatever
\* the positional terms.
ScoreDominance ==
  last.op = "evaluateMove" =>
    \A i, j \in 1..Len(games[1].fen) :
      LET a == games[1].fen[i]
          b == games[1].fen[j]
      IN ((a.gives = "mate" \/ a.captured # "")
            /\ b.gives # "mate" /\ b.captured = "")
           => last.code[i] > last.code[j]

\* C38, amended: a candidate that delivers checkmate scores strictly higher
\* than every candidate that does not, whatever the other terms; a capture
\* adds to the score of a candidate, and a candidate that captures scores
\* strictly higher than one that differs from it only in capturing nothing.
MateDominates ==
  last.op = "evaluateMove" =>
    \A i, j \in 1..Len(games[1].fen) :
      LET a == games[1].fen[i]
          b == games[1].fen[j]
      IN /\ (a.gives = "mate" /\ b.gives # "mate") => last.code[i] > last.code[j]
         /\ (a.captured # "" /\ b = [a EXCEPT !.captured = ""])
              => last.code[i] > last.code[j]

\* a checkmate by a queen that captures nothing has been scored beside a pawn
\* that takes a queen with check
MateScoredBesideBestCapture ==
  /\ last.op = "evaluateMove"
  /\ games[1].fen[1].gives = "mate" /\ games[1].fen[1].piece = "q"
  /\ games[1].fen[1].captured = ""
  /\ games[1].fen[2].gives = "check" /\ games[1].fen[2].piece = "p"
  /\ games[1].fen[2].captured = "q" /\ games[1].fen[2].mobility = 218
  /\ last.code[1] > last.code[2]


\* C39: parity: in every reachable state of every match, currentTurn is white
\* exactly when the number of plies in moves is even.
TurnParity ==
  \A i \in 1..Len(games) :
    games[i].currentTurn = "white" <=> Len(games[i].moves) % 2 = 0


\* the users with a live connection
ConnectedUsers ==
  {io.sockets[s].userId : s \in {q \in Sockets : io.sockets[q].connected}}

\* the users activeUsers has an entry for: its size is what users:count carries
RegisteredUsers == {u \in Users : io.activeUsers[u] # NoEntry}

\* C40: connection registry consistency: after any sequence of connects and
\* disconnects, several simultaneous connections of one user included,
\* activeUsers contains a user exactly when that user has a live connection, so
\* that users:count is the number of distinct connected users.
RegistryConsistent == RegisteredUsers = ConnectedUsers
====
